---- MODULE Spec2Model ----
(***************************************************************************)
(* A model of danio's schema differ, migration compiler and SQL builders.  *)
(*                                                                         *)
(* Strings whose characters the code inspects (column types) are modelled  *)
(* as sequences of one-character strings; SQL text is modelled as the      *)
(* sequence of its statements, each statement a record of its parts.       *)
(***************************************************************************)
EXTENDS Integers, Sequences, FiniteSets, TLC

(***************************************************************************)
(* Bounds of the model.                                                    *)
(***************************************************************************)
\* the largest number of indexes one schema declares
MaxIndexes == 2

\* Python's None, and "no exception was raised"
Null == [none |-> TRUE]
NoException == "no exception"

\* Python values, tagged so that any two of them can be compared
PyInt(n) == [py |-> "int", v |-> n]
PyBool(b) == [py |-> "bool", v |-> IF b THEN 1 ELSE 0]
PyStr(s) == [py |-> "str", v |-> s]
PyNone == [py |-> "None"]

(***************************************************************************)
(* Python str operations on character sequences.                           *)
(***************************************************************************)
UpperChars == <<"A","B","C","D","E","F","G","H","I","J","K","L","M",
                "N","O","P","Q","R","S","T","U","V","W","X","Y","Z">>
LowerChars == <<"a","b","c","d","e","f","g","h","i","j","k","l","m",
                "n","o","p","q","r","s","t","u","v","w","x","y","z">>

\* str.lower() on one character
LowerChar(c) ==
    IF \E i \in DOMAIN UpperChars : UpperChars[i] = c
    THEN LowerChars[CHOOSE i \in DOMAIN UpperChars : UpperChars[i] = c]
    ELSE c

\* str.lower()
Lower(s) == [i \in DOMAIN s |-> LowerChar(s[i])]

\* sub in s
StrContains(s, sub) ==
    \E i \in 1..(Len(s) - Len(sub) + 1) : SubSeq(s, i, i + Len(sub) - 1) = sub

RECURSIVE StrReplace(_, _, _)
\* s.replace(old, new): every non-overlapping occurrence, left to right
StrReplace(s, old, new) ==
    IF Len(s) < Len(old) THEN s
    ELSE IF SubSeq(s, 1, Len(old)) = old
         THEN new \o StrReplace(SubSeq(s, Len(old) + 1, Len(s)), old, new)
         ELSE <<s[1]>> \o StrReplace(Tail(s), old, new)

\* s.split(c)[0]: the part of s before the first c
SplitHead(s, c) ==
    IF \E i \in DOMAIN s : s[i] = c
    THEN SubSeq(s, 1, (CHOOSE i \in DOMAIN s :
                          s[i] = c /\ \A j \in 1..(i - 1) : s[j] # c) - 1)
    ELSE s

S_int     == <<"i","n","t">>
S_serial  == <<"s","e","r","i","a","l">>
S_integer == <<"i","n","t","e","g","e","r">>
S_bigint  == <<"b","i","g","i","n","t">>
S_int10   == <<"i","n","t","(","1","0",")">>

(***************************************************************************)
(* Sequences and sets.                                                     *)
(***************************************************************************)
Range(s) == {s[i] : i \in DOMAIN s}

\* every order in which the elements of a set can be iterated
Orders(S) ==
    {s \in [1..Cardinality(S) -> S] :
        \A i, j \in 1..Cardinality(S) : i # j => s[i] # s[j]}

\* list comprehension [x for x in s if x.name in names]
RECURSIVE FilterByName(_, _)
FilterByName(s, names) ==
    IF s = <<>> THEN <<>>
    ELSE IF Head(s).name \in names
         THEN <<Head(s)>> \o FilterByName(Tail(s), names)
         ELSE FilterByName(Tail(s), names)

Names(s) == {s[i].name : i \in DOMAIN s}

(***************************************************************************)
(* Database.Type                                                           *)
(***************************************************************************)
MYSQL    == "mysql"
POSTGRES == "postgres"
SQLITE   == "sqlite"
DatabaseType == {MYSQL, POSTGRES, SQLITE}

(***************************************************************************)
(* Field, Index, Schema, Migration                                         *)
(***************************************************************************)
\* the class Field.NoDefault
NoDefault == [py |-> "NoDefault"]

\* a Field: the attributes the differ and the compilers read
\* (cls is the Field subclass, model_name the attribute name on the model)
Field(cls, name, model_name, type, default, primary, auto_increment, not_null, comment) ==
    [cls |-> cls, name |-> name, model_name |-> model_name, type |-> type,
     default |-> default, primary |-> primary, auto_increment |-> auto_increment,
     not_null |-> not_null, comment |-> comment]

\* Field.default_value: NoDefault is itself callable and yields a NoDefault
\* instance, any other default is copied
default_value(f) == f.default

\* Field.to_database: BoolField turns a bool into an int, the other modelled
\* classes (no enum attached) hand the value on
Field_to_database(f, v) ==
    IF f.cls = "BoolField" /\ v.py = "bool" THEN PyInt(v.v) ELSE v

\* Index.__post_init__: a name generated from the field names, a random
\* number and the kind of index (the random draw is the parameter rnd)
GeneratedIndexName(fields, unique, rnd) ==
    [prefix |-> fields, rnd |-> rnd, suffix |-> IF unique THEN "_uiq" ELSE "_idx"]

\* an Index; fields holds the names of its Field objects, in order
Index(fields, unique, name) ==
    [fields |-> fields, unique |-> unique, name |-> name]

Schema(name, fields, indexes) ==
    [name |-> name, fields |-> fields, indexes |-> indexes]

Migration(schema, old_schema, add_fields, drop_fields, change_type_fields, add_indexes, drop_indexes) ==
    [schema |-> schema, old_schema |-> old_schema,
     add_fields |-> add_fields, drop_fields |-> drop_fields,
     change_type_fields |-> change_type_fields,
     add_indexes |-> add_indexes, drop_indexes |-> drop_indexes]

\* {f.name: f for f in fields}: the last field of a name wins
FieldsByName(fields) ==
    [n \in Names(fields) |->
        fields[CHOOSE i \in DOMAIN fields :
                  fields[i].name = n /\ \A j \in DOMAIN fields :
                                           fields[j].name = n => j <= i]]

\* mutant: the comparison key keeps the case of the type
NormalizedType_caseSensitive(type) ==
    LET t1 == StrReplace(type, S_serial, S_int)
        t2 == StrReplace(t1, S_integer, S_int)
    IN  IF StrContains(t2, S_int) THEN SplitHead(t2, "(") ELSE t2

\* the type comparison key of Schema.__sub__
NormalizedType(type) ==
    LET t0 == Lower(type)
        t1 == StrReplace(t0, S_serial, S_int)
        t2 == StrReplace(t1, S_integer, S_int)
    IN  IF StrContains(t2, S_int) THEN SplitHead(t2, "(") ELSE t2

\* mutant: the key of an index holds its field names without their order
IndexKey_unordered(i) == <<i.unique, Range(i.fields)>>

\* mutant: the key of an index holds its name
IndexKey_named(i) == <<i.unique, i.fields, i.name>>

IndexKey(i) == <<i.unique, i.fields>>

\* {(i.unique, tuple(f.name for f in i.fields)): i for i in indexes}
IndexesByKey(indexes) ==
    [k \in {IndexKey(indexes[i]) : i \in DOMAIN indexes} |->
        indexes[CHOOSE i \in DOMAIN indexes :
                   IndexKey(indexes[i]) = k /\ \A j \in DOMAIN indexes :
                                                  IndexKey(indexes[j]) = k => j <= i]]

RECURSIVE ChangedTypeFields_oneSided(_, _)
\* mutant: the length is stripped from the field's own type only
ChangedTypeFields_oneSided(fields, other_fields) ==
    IF fields = <<>> THEN <<>>
    ELSE LET f == Head(fields)
             rest == ChangedTypeFields_oneSided(Tail(fields), other_fields)
         IN  IF /\ f.name \in DOMAIN other_fields
                /\ NormalizedType(f.type) # Lower(other_fields[f.name].type)
             THEN <<f>> \o rest
             ELSE rest

RECURSIVE ChangedTypeFields_oldDefinition(_, _)
\* mutant: the changed field is reported with the other schema's definition
ChangedTypeFields_oldDefinition(fields, other_fields) ==
    IF fields = <<>> THEN <<>>
    ELSE LET f == Head(fields)
             rest == ChangedTypeFields_oldDefinition(Tail(fields), other_fields)
         IN  IF /\ f.name \in DOMAIN other_fields
                /\ NormalizedType(f.type) # NormalizedType(other_fields[f.name].type)
             THEN <<other_fields[f.name]>> \o rest
             ELSE rest

RECURSIVE ChangedTypeFields(_, _)
\* the loop of Schema.__sub__ that collects change_type_fields
ChangedTypeFields(fields, other_fields) ==
    IF fields = <<>> THEN <<>>
    ELSE LET f == Head(fields)
             rest == ChangedTypeFields(Tail(fields), other_fields)
         IN  IF /\ f.name \in DOMAIN other_fields
                /\ NormalizedType(f.type) # NormalizedType(other_fields[f.name].type)
             THEN <<f>> \o rest
             ELSE rest

\* Schema.__sub__ with both schemas present; addOrder and dropOrder are the
\* orders in which the two key sets happen to be iterated
Schema_sub_ordered(self, other, addOrder, dropOrder) ==
    LET self_fields   == FieldsByName(self.fields)
        other_fields  == FieldsByName(other.fields)
        self_indexes  == IndexesByKey(self.indexes)
        other_indexes == IndexesByKey(other.indexes)
    IN  Migration(self, other,
                  FilterByName(self.fields, Names(self.fields) \ DOMAIN other_fields),
                  FilterByName(other.fields, Names(other.fields) \ DOMAIN self_fields),
                  ChangedTypeFields(self.fields, other_fields),
                  [i \in DOMAIN addOrder |-> self_indexes[addOrder[i]]],
                  [i \in DOMAIN dropOrder |-> other_indexes[dropOrder[i]]])

\* Schema.__sub__: every migration one evaluation of self - other can return
Schema_sub(self, other) ==
    IF other = Null
    THEN {Migration(self, Null, <<>>, <<>>, <<>>, <<>>, <<>>)}
    ELSE LET addKeys  == DOMAIN IndexesByKey(self.indexes) \ DOMAIN IndexesByKey(other.indexes)
             dropKeys == DOMAIN IndexesByKey(other.indexes) \ DOMAIN IndexesByKey(self.indexes)
         IN  {Schema_sub_ordered(self, other, ao, do) :
                 ao \in Orders(addKeys), do \in Orders(dropKeys)}

\* mutant: the inverse keeps the new field definitions in change_type_fields
Migration_invert_newDefinition(self) ==
    Migration(self.old_schema, self.schema, self.drop_fields, self.add_fields,
              self.change_type_fields, self.drop_indexes, self.add_indexes)

\* mutant: the inverse keeps schema and old_schema in their places
Migration_invert_unswapped(self) ==
    Migration(self.schema, self.old_schema, self.drop_fields, self.add_fields,
              <<>>, self.drop_indexes, self.add_indexes)

\* Migration.__invert__
Migration_invert(self) ==
    LET changed_fields == Names(self.change_type_fields)
        change_type_fields ==
            IF self.old_schema # Null /\ self.schema # Null
            THEN LET old_fields == FieldsByName(self.old_schema.fields)
                     kept == FilterByName(self.schema.fields, changed_fields)
                 IN  [i \in DOMAIN kept |-> old_fields[kept[i].name]]
            ELSE <<>>
    IN  Migration(self.old_schema, self.schema, self.drop_fields, self.add_fields,
                  change_type_fields, self.drop_indexes, self.add_indexes)

(***************************************************************************)
(* SQL text: identifiers, literals, statements                             *)
(***************************************************************************)
\* the two quote characters
DoubleQuote == "double quote"
BackTick == "backtick"

\* Database.get_quote
get_quote(type) == IF type = POSTGRES THEN DoubleQuote ELSE BackTick

\* type.quote(name): the identifier between the dialect's quote characters
quote(type, name) == <<get_quote(type), name, get_quote(type)>>

\* the identifier a quoted name denotes
Unquote(q) == q[2]

\* V(value): the value rendered as an SQL literal
V(value) == <<"literal", value>>

\* Field.to_sql: the column definition
Field_to_sql(f, type) ==
    IF type = MYSQL
    THEN [column |-> quote(type, f.name), type |-> f.type, not_null |-> f.not_null,
          auto_increment |-> f.auto_increment, primary |-> FALSE, comment |-> f.comment]
    ELSE IF type = POSTGRES
    THEN [column |-> quote(type, f.name), type |-> f.type, not_null |-> f.not_null,
          auto_increment |-> FALSE, primary |-> f.primary, comment |-> ""]
    ELSE [column |-> quote(type, f.name), type |-> f.type,
          not_null |-> (f.not_null /\ ~f.primary),
          auto_increment |-> f.auto_increment, primary |-> f.primary, comment |-> ""]

\* "CREATE [UNIQUE] INDEX name on table (columns)"
CreateIndexStmt(type, table, i) ==
    [op |-> "CREATE INDEX", unique |-> i.unique, name |-> quote(type, i.name),
     table |-> quote(type, table),
     columns |-> [k \in DOMAIN i.fields |-> quote(type, i.fields[k])]]

\* Index.to_sql: the inline KEY clause of MySQL, nothing elsewhere
Index_to_sql(i, type) ==
    IF type = MYSQL
    THEN <<[unique |-> i.unique, name |-> quote(type, i.name),
            columns |-> [k \in DOMAIN i.fields |-> quote(type, i.fields[k])]]>>
    ELSE <<>>

RECURSIVE Flatten(_)
\* the concatenation of a sequence of sequences
Flatten(ss) == IF ss = <<>> THEN <<>> ELSE Head(ss) \o Flatten(Tail(ss))

\* Schema.primary_field: the first field with primary set
primary_field(schema) ==
    schema.fields[CHOOSE i \in DOMAIN schema.fields :
                     schema.fields[i].primary
                     /\ \A j \in 1..(i - 1) : ~schema.fields[j].primary]

\* Schema.to_sql: CREATE TABLE, then (not MySQL) one CREATE INDEX per index,
\* then (PostgreSQL) one COMMENT ON COLUMN per commented field
Schema_to_sql(self, type) ==
    LET keys == IF type = MYSQL
                THEN Flatten([k \in DOMAIN self.indexes |->
                                 Index_to_sql(self.indexes[k], type)])
                ELSE <<>>
        create == [op |-> "CREATE TABLE", table |-> quote(type, self.name),
                   columns |-> [k \in DOMAIN self.fields |->
                                   Field_to_sql(self.fields[k], type)],
                   primary_key |-> IF type = MYSQL
                                   THEN <<quote(type, primary_field(self).name)>>
                                   ELSE <<>>,
                   keys |-> keys]
        indexes == IF type # MYSQL
                   THEN [k \in DOMAIN self.indexes |->
                            CreateIndexStmt(type, self.name, self.indexes[k])]
                   ELSE <<>>
        commented == SelectSeq(self.fields, LAMBDA f : f.comment # "")
        comments == IF type = POSTGRES
                    THEN [k \in DOMAIN commented |->
                             [op |-> "COMMENT ON COLUMN", table |-> <<DoubleQuote, self.name, DoubleQuote>>,
                              column |-> <<DoubleQuote, commented[k].name, DoubleQuote>>,
                              comment |-> commented[k].comment]]
                    ELSE <<>>
    IN  <<create>> \o indexes \o comments

\* mutant: the default of an added column is never dropped again
AddColumnStmts_keepDefault(self, f, type) ==
    <<[op |-> "ADD COLUMN", table |-> quote(type, self.schema.name),
       column |-> Field_to_sql(f, type),
       default |-> IF default_value(f) # NoDefault
                   THEN V(Field_to_database(f, default_value(f)))
                   ELSE NoDefault]>>

\* the ADD COLUMN statement(s) of one added field
AddColumnStmts(self, f, type) ==
    LET table == quote(type, self.schema.name)
        add == [op |-> "ADD COLUMN", table |-> table, column |-> Field_to_sql(f, type),
                default |-> IF default_value(f) # NoDefault
                            THEN V(Field_to_database(f, default_value(f)))
                            ELSE NoDefault]
    IN  IF default_value(f) # NoDefault /\ type # SQLITE
        THEN <<add, [op |-> "DROP DEFAULT", table |-> table,
                     column |-> quote(type, f.name)]>>
        ELSE <<add>>

\* a statement that names no table
NoTable == <<>>

\* mutant: MySQL drops every dropped index explicitly
DropIndexStmts_always(self, i, type) ==
    <<[op |-> "DROP INDEX",
       table |-> IF type = MYSQL THEN quote(type, self.schema.name) ELSE NoTable,
       name |-> quote(type, i.name)]>>

\* the DROP INDEX statement of one dropped index, if one is emitted
DropIndexStmts(self, i, type) ==
    IF type = MYSQL
    THEN IF Range(i.fields) \cap Names(self.drop_fields) = {}
         THEN <<[op |-> "DROP INDEX", table |-> quote(type, self.schema.name),
                 name |-> quote(type, i.name)]>>
         ELSE <<>>
    ELSE <<[op |-> "DROP INDEX", table |-> NoTable, name |-> quote(type, i.name)]>>

\* the statement that changes one column's type (MySQL, PostgreSQL)
ChangeTypeStmt(self, f, type) ==
    [op |-> IF type = MYSQL THEN "MODIFY" ELSE "ALTER COLUMN TYPE",
     table |-> quote(type, self.schema.name), column |-> quote(type, f.name),
     type |-> f.type]

\* mutant: the indexes are created before the columns are added
EmitOrder_createFirst(rename, drops, adds, dropcols, changes, creates) ==
    rename \o drops \o creates \o adds \o dropcols \o changes

\* the order in which Migration.to_sql emits the statements of an update in place
EmitOrder(rename, drops, adds, dropcols, changes, creates) ==
    rename \o drops \o adds \o dropcols \o changes \o creates

\* Migration.to_sql: the statements in the order they are emitted, or the
\* exception raised instead of returning
Migration_to_sql(self, type) ==
    IF self.schema # Null /\ self.old_schema = Null
    THEN [raised |-> NoException, sqls |-> Schema_to_sql(self.schema, type)]
    ELSE IF self.old_schema # Null /\ self.schema = Null
    THEN [raised |-> NoException,
          sqls |-> <<[op |-> "DROP TABLE", table |-> quote(type, self.old_schema.name)]>>]
    ELSE IF self.schema # Null /\ self.old_schema # Null
    THEN LET rename ==
                 IF self.old_schema.name # self.schema.name
                 THEN <<[op |-> "RENAME", table |-> quote(type, self.old_schema.name),
                         name |-> quote(type, self.schema.name)]>>
                 ELSE <<>>
             drops == Flatten([k \in DOMAIN self.drop_indexes |->
                                  DropIndexStmts(self, self.drop_indexes[k], type)])
             adds == Flatten([k \in DOMAIN self.add_fields |->
                                 AddColumnStmts(self, self.add_fields[k], type)])
             dropcols == [k \in DOMAIN self.drop_fields |->
                             [op |-> "DROP COLUMN", table |-> quote(type, self.schema.name),
                              column |-> quote(type, self.drop_fields[k].name)]]
             changes == [k \in DOMAIN self.change_type_fields |->
                            ChangeTypeStmt(self, self.change_type_fields[k], type)]
             creates == [k \in DOMAIN self.add_indexes |->
                            CreateIndexStmt(type, self.schema.name, self.add_indexes[k])]
         IN  IF self.change_type_fields # <<>> /\ type = SQLITE
             THEN [raised |-> "OperationException", sqls |-> <<>>]
             ELSE [raised |-> NoException,
                   sqls |-> EmitOrder(rename, drops, adds, dropcols, changes, creates)]
    ELSE [raised |-> NoException, sqls |-> <<>>]

\* Schema.__eq__: not bool((self - other).to_sql()); the emptiness of the text
\* is the same for every iteration order
Schema_eq(self, other) ==
    \A m \in Schema_sub(self, other) : Migration_to_sql(m, MYSQL).sqls = <<>>

\* the order of the field names under sorted()
NameOrder == <<"a", "b", "id", "x", "y">>

\* sorted(f.name for f in idx.fields), of names that are all different
SortedNames(names) == SelectSeq(NameOrder, LAMBDA n : n \in Range(names))

\* serialize(idx) of Schema.sync_index_name
Serialize(idx) == <<idx.unique, SortedNames(idx.fields)>>

\* {serialize(idx): idx for idx in indexes}: of equal keys the last stays
IndexesBySerialized(indexes) ==
    [k \in {Serialize(indexes[i]) : i \in DOMAIN indexes} |->
        indexes[CHOOSE i \in DOMAIN indexes :
                   Serialize(indexes[i]) = k /\ \A j \in DOMAIN indexes :
                                                   Serialize(indexes[j]) = k => j <= i]]

\* Schema.sync_index_name: self after the call, and what the call raised
Schema_sync_index_name(self, other) ==
    IF ~Schema_eq(self, other) THEN [self |-> self, raised |-> "ValueError"]
    ELSE IF \E i \in DOMAIN self.indexes :
                Serialize(self.indexes[i]) \notin DOMAIN IndexesBySerialized(other.indexes)
    THEN [self |-> self, raised |-> "KeyError"]
    ELSE [self |-> [self EXCEPT !.indexes =
                       [i \in DOMAIN self.indexes |->
                           [self.indexes[i] EXCEPT !.name =
                               IndexesBySerialized(other.indexes)[Serialize(self.indexes[i])].name]]],
          raised |-> NoException]

(***************************************************************************)
(* The database the migration scripts are executed against: one table,    *)
(* its columns and its indexes.  A statement the database rejects sets     *)
(* error and ends the script.                                              *)
(***************************************************************************)
\* the table a schema's CREATE TABLE script leaves behind
TableOf(schema) ==
    [name |-> schema.name,
     columns |-> [k \in DOMAIN schema.fields |->
                     [name |-> schema.fields[k].name, type |-> schema.fields[k].type,
                      primary |-> schema.fields[k].primary]],
     indexes |-> {[name |-> schema.indexes[k].name, unique |-> schema.indexes[k].unique,
                   columns |-> schema.indexes[k].fields] : k \in DOMAIN schema.indexes},
     error |-> FALSE]

HasColumn(db, c) == \E k \in DOMAIN db.columns : db.columns[k].name = c

\* ALTER TABLE ... DROP COLUMN: MySQL takes the column out of every index and
\* drops an index left without columns, PostgreSQL drops every index on the
\* column, SQLite refuses to drop an indexed column
DropColumn(db, c, type) ==
    LET columns == SelectSeq(db.columns, LAMBDA x : x.name # c)
        touched == {i \in db.indexes : c \in Range(i.columns)}
    IN  IF type = MYSQL
        THEN [db EXCEPT !.columns = columns,
                        !.indexes =
                            {[i EXCEPT !.columns = SelectSeq(i.columns, LAMBDA x : x # c)] :
                                i \in {j \in db.indexes : Range(j.columns) # {c}}}]
        ELSE IF type = POSTGRES
        THEN [db EXCEPT !.columns = columns, !.indexes = db.indexes \ touched]
        ELSE IF touched = {}
             THEN [db EXCEPT !.columns = columns]
             ELSE [db EXCEPT !.error = TRUE]

\* the effect of one statement of a migration script
ExecuteStatement(db, st, type) ==
    LET failed == [db EXCEPT !.error = TRUE]
        onTable == st.table = NoTable \/ Unquote(st.table) = db.name
    IN  IF db.error \/ ~onTable THEN failed
        ELSE IF st.op = "RENAME"
        THEN [db EXCEPT !.name = Unquote(st.name)]
        ELSE IF st.op = "DROP INDEX"
        THEN IF \E i \in db.indexes : i.name = Unquote(st.name)
             THEN [db EXCEPT !.indexes = {i \in db.indexes : i.name # Unquote(st.name)}]
             ELSE failed
        ELSE IF st.op = "ADD COLUMN"
        THEN IF HasColumn(db, Unquote(st.column.column)) THEN failed
             ELSE [db EXCEPT !.columns =
                       Append(db.columns, [name |-> Unquote(st.column.column),
                                           type |-> st.column.type, primary |-> FALSE])]
        ELSE IF st.op = "DROP DEFAULT"
        THEN IF HasColumn(db, Unquote(st.column)) THEN db ELSE failed
        ELSE IF st.op = "DROP COLUMN"
        THEN IF HasColumn(db, Unquote(st.column))
             THEN DropColumn(db, Unquote(st.column), type)
             ELSE failed
        ELSE IF st.op \in {"MODIFY", "ALTER COLUMN TYPE"}
        THEN IF HasColumn(db, Unquote(st.column))
             THEN [db EXCEPT !.columns =
                       [k \in DOMAIN db.columns |->
                           IF db.columns[k].name = Unquote(st.column)
                           THEN [db.columns[k] EXCEPT !.type = st.type]
                           ELSE db.columns[k]]]
             ELSE failed
        ELSE IF st.op = "CREATE INDEX"
        THEN IF /\ \A k \in DOMAIN st.columns : HasColumn(db, Unquote(st.columns[k]))
                /\ \A i \in db.indexes : i.name # Unquote(st.name)
             THEN [db EXCEPT !.indexes =
                       db.indexes \cup {[name |-> Unquote(st.name), unique |-> st.unique,
                                         columns |-> [k \in DOMAIN st.columns |->
                                                         Unquote(st.columns[k])]]}]
             ELSE failed
        ELSE failed

RECURSIVE ExecuteScript(_, _, _)
\* db.execute(script): the statements one after the other
ExecuteScript(db, sqls, type) ==
    IF sqls = <<>> THEN db
    ELSE ExecuteScript(ExecuteStatement(db, Head(sqls), type), Tail(sqls), type)

\* get_db_schema: the schema read back from the database catalog, under the
\* model's table name
IntrospectedSchema(db, table_name) ==
    LET idx == CHOOSE o \in Orders(db.indexes) : TRUE
    IN  Schema(table_name,
               [k \in DOMAIN db.columns |->
                   Field("Field", db.columns[k].name, "", db.columns[k].type, NoDefault,
                         db.columns[k].primary, FALSE, TRUE, "")],
               [k \in DOMAIN idx |-> Index(idx[k].columns, idx[k].unique, idx[k].name)])

\* the five operation lists of a migration are empty
NoOperations(m) ==
    /\ m.add_fields = <<>> /\ m.drop_fields = <<>> /\ m.change_type_fields = <<>>
    /\ m.add_indexes = <<>> /\ m.drop_indexes = <<>>

(***************************************************************************)
(* SQL markers.  A marker object lives in the store under its identity     *)
(* (its position in heap); its counter (SQLMarker.ID) and its value map    *)
(* (_vars) are objects of their own, which sync() shares by reference.     *)
(* SQL text is modelled as the sequence of its tokens.                     *)
(***************************************************************************)
\* operands of an operator: a literal, a Field, a marker object, a list
Lit(v) == [t |-> "lit", v |-> v]
FieldOperand(f) == [t |-> "field", f |-> f]
Obj(o) == [t |-> "obj", o |-> o]
List(l) == [t |-> "list", l |-> l]

\* the Python value a non-Field, non-marker operand is
ValueOf(operand) ==
    IF operand.t = "lit" THEN operand.v ELSE [py |-> "object", of |-> operand]

\* tokens of SQL text: a keyword or punctuation, a quoted identifier, a
\* named placeholder (:name), raw text, a cast suffix
Kw(s) == [k |-> "kw", s |-> s]
Id(q) == [k |-> "id", q |-> q]
Ph(name) == [k |-> "ph", name |-> name]
Raw(s) == [k |-> "raw", s |-> s]
Cast(type) == [k |-> "cast", type |-> type]

\* what a compilation returns (sql) or raises, and the store it leaves
Ok(st, sql) == [st |-> st, sql |-> sql, raised |-> NoException]
Raise(st, exc) == [st |-> st, sql |-> <<>>, raised |-> exc]

\* dataclass construction with one ID(0) and one dict for every marker
NewMarker_shared(st, obj) ==
    [heap |-> Append(st.heap, obj @@ [var_index |-> 1, vars |-> 1]),
     ids |-> Append(st.ids, 0),
     dicts |-> Append(st.dicts, <<>>)]

\* dataclass construction of a marker: a fresh ID(0) and a fresh dict
NewMarker(st, obj) ==
    LET o == Len(st.heap) + 1
    IN  [heap |-> Append(st.heap, obj @@ [var_index |-> o, vars |-> o]),
         ids |-> Append(st.ids, 0),
         dicts |-> Append(st.dicts, <<>>)]

\* the identity of the object NewMarker creates
NewId(st) == Len(st.heap) + 1

\* f"var{n}"
VarName(n) == <<"var", n>>

\* SQLMarker.ID.get_add
get_add(st, self) ==
    LET i == st.heap[self].var_index
    IN  [st |-> [st EXCEPT !.ids[i] = @ + 1], v |-> st.ids[i]]

\* SQLMarker.mark: the new name k and the store with k bound to value
SQLMarker_mark(st, self, value) ==
    LET g == get_add(st, self)
        k == VarName(g.v)
    IN  [st |-> [g.st EXCEPT !.dicts[st.heap[self].vars] = (k :> value) @@ @],
         k |-> k]

\* the steps of SQLMarker.mark, one at a time.  ID.get_add: v = self.value
ID_value(st, self) == st.ids[st.heap[self].var_index]

\* ID.get_add: self.value += 1
ID_add(st, self) == [st EXCEPT !.ids[st.heap[self].var_index] = @ + 1]

\* SQLMarker.mark: self._vars[k] = value
Mark_store(st, self, k, value) ==
    [st EXCEPT !.dicts[st.heap[self].vars] = (k :> value) @@ @]

\* SQLMarker.sync
SQLMarker_sync(st, self, other) ==
    [st EXCEPT !.heap[self].vars = st.heap[other].vars,
               !.heap[self].var_index = st.heap[other].var_index]

\* Call(f, st, self, type, path, a) is the call f(st, self, type, path, ...)
\* of one of the compiling functions below, a holding its other arguments;
\* the functions call each other and themselves through it
RECURSIVE Call(_, _, _, _, _, _)

\* the compilation r with the text pre before and the text post after its own
Wrap(pre, r, post) ==
    IF r.raised # NoException THEN r ELSE Ok(r.st, pre \o r.sql \o post)

\* f":{self.mark(value)}": the placeholder of the mark m
Marked(m) == Ok(m.st, <<Ph(m.k)>>)

\* what follows the compilation r of one item of a loop: the exception r
\* raised, else the loop f from its next item on, in the store r left, with
\* the text pre, r's text and post built so far
Continue(r, f, self, type, path, a, pre, post) ==
    IF r.raised # NoException THEN r
    ELSE Call(f, r.st, self, type, path, [a EXCEPT !.sql = pre \o r.sql \o post])

\* SQLMarker._parse
SQLMarker_parse(st, self, value, type, path) ==
    IF value.t = "field" THEN Ok(st, <<Id(quote(type, value.f.name))>>)
    ELSE IF value.t = "obj"
    THEN Call("to_sql", SQLMarker_sync(st, value.o, self), value.o, type, path, <<>>)
    ELSE Marked(SQLMarker_mark(st, self,
                    IF st.heap[self].field # Null
                    THEN Field_to_database(st.heap[self].field, ValueOf(value))
                    ELSE ValueOf(value)))

\* ', '.join(self._parse(v) for v in values), from the i-th value on; sql is
\* the text built so far
ParseEach(st, self, values, type, path, i, sql) ==
    IF i > Len(values) THEN Ok(st, sql)
    ELSE Continue(SQLMarker_parse(st, self, values[i], type, path),
                  "ParseEach", self, type, path,
                  [values |-> values, i |-> i + 1, sql |-> <<>>],
                  sql \o (IF i > 1 THEN <<Kw(",")>> ELSE <<>>), <<>>)

\* the loop of SQLExpression.to_sql with no parentheses around the text
\* before an operator whose operand is an expression
SQLExpression_values_bare(st, self, type, path, i, sql) ==
    IF i > Len(st.heap[self].values) THEN Ok(st, sql)
    ELSE LET op == st.heap[self].values[i].op
             value == st.heap[self].values[i].value
             next == [i |-> i + 1, sql |-> <<>>]
         IN  IF op = "IN"
             THEN Continue(IF value.t = "obj"
                           THEN SQLMarker_parse(st, self, value, type, path)
                           ELSE IF value.t = "list"
                           THEN ParseEach(st, self, value.l, type, path, 1, <<>>)
                           ELSE Raise(st, "TypeError"),
                           "SQLExpression_values", self, type, path, next,
                           sql \o <<Kw("IN"), Kw("(")>>, <<Kw(")")>>)
             ELSE IF op = "LIKE"
             THEN Continue(Marked(SQLMarker_mark(st, self, ValueOf(value))),
                           "SQLExpression_values", self, type, path, next,
                           sql \o <<Kw("LIKE")>>, <<>>)
             ELSE IF value.t = "obj" /\ st.heap[value.o].cls = "SQLExpression"
             THEN Continue(SQLMarker_parse(st, self, value, type, path),
                           "SQLExpression_values", self, type, path, next,
                           sql \o <<Kw(op), Kw("(")>>, <<Kw(")")>>)
             ELSE Continue(SQLMarker_parse(st, self, value, type, path),
                           "SQLExpression_values", self, type, path, next,
                           sql \o <<Kw(op)>>, <<>>)

\* the loop of SQLExpression.to_sql from the i-th (op, value) on; sql is
\* the text built so far
SQLExpression_values(st, self, type, path, i, sql) ==
    IF i > Len(st.heap[self].values) THEN Ok(st, sql)
    ELSE LET op == st.heap[self].values[i].op
             value == st.heap[self].values[i].value
             next == [i |-> i + 1, sql |-> <<>>]
         IN  IF op = "IN"
             THEN Continue(IF value.t = "obj"
                           THEN SQLMarker_parse(st, self, value, type, path)
                           ELSE IF value.t = "list"
                           THEN ParseEach(st, self, value.l, type, path, 1, <<>>)
                           ELSE Raise(st, "TypeError"),
                           "SQLExpression_values", self, type, path, next,
                           sql \o <<Kw("IN"), Kw("(")>>, <<Kw(")")>>)
             ELSE IF op = "LIKE"
             THEN Continue(Marked(SQLMarker_mark(st, self, ValueOf(value))),
                           "SQLExpression_values", self, type, path, next,
                           sql \o <<Kw("LIKE")>>, <<>>)
             ELSE IF value.t = "obj" /\ st.heap[value.o].cls = "SQLExpression"
             THEN Continue(SQLMarker_parse(st, self, value, type, path),
                           "SQLExpression_values", self, type, path, next,
                           <<Kw("(")>> \o sql \o <<Kw(")"), Kw(op), Kw("(")>>, <<Kw(")")>>)
             ELSE Continue(SQLMarker_parse(st, self, value, type, path),
                           "SQLExpression_values", self, type, path, next,
                           sql \o <<Kw(op)>>, <<>>)

\* SQLExpression.to_sql
SQLExpression_to_sql(st, self, type, path) ==
    IF st.heap[self].field = Null THEN Raise(st, "AssertionError")
    ELSE SQLExpression_values(st, self, type, path, 1,
                              <<Id(quote(type, st.heap[self].field.name))>>)

\* the cast_type of SQLCase.to_sql: "::type" for PostgreSQL, else nothing
SQLCase_cast_type(st, self, type) ==
    IF type = POSTGRES THEN <<Cast(st.heap[self].cast_type)>> ELSE <<>>

\* the loop of SQLCase.to_sql from the i-th case on, and the ELSE after it
SQLCase_cases(st, self, type, path, i, sql) ==
    IF i > Len(st.heap[self].cases)
    THEN Wrap(sql \o <<Kw("ELSE")>>,
              SQLMarker_parse(st, self, st.heap[self].default, type, path),
              SQLCase_cast_type(st, self, type) \o <<Kw("END")>>)
    ELSE Continue(SQLMarker_parse(st, self, st.heap[self].cases[i].ex, type, path),
                  "SQLCase_then", self, type, path, [i |-> i, sql |-> <<>>],
                  sql \o <<Kw("WHEN")>>, <<Kw("THEN")>>)

\* the value of the i-th case, after its WHEN, and the cases after it
SQLCase_then(st, self, type, path, i, sql) ==
    Continue(SQLMarker_parse(st, self, st.heap[self].cases[i].v, type, path),
             "SQLCase_cases", self, type, path, [i |-> i + 1, sql |-> <<>>],
             sql, SQLCase_cast_type(st, self, type))

\* SQLCase.to_sql
SQLCase_to_sql(st, self, type, path) ==
    IF st.heap[self].cases = <<>> THEN Raise(st, "AssertionError")
    ELSE SQLCase_cases(st, self, type, path, 1, <<Kw("CASE")>>)

\* sep.join(parts)
RECURSIVE Join(_, _)
Join(parts, sep) ==
    IF parts = <<>> THEN <<>>
    ELSE IF Len(parts) = 1 THEN Head(parts)
    ELSE Head(parts) \o sep \o Join(Tail(parts), sep)

\* ', '.join(quote(n) for n in names)
QuotedNames(names, type, sep) ==
    Join([i \in DOMAIN names |-> <<Id(quote(type, names[i]))>>], <<Kw(sep)>>)

\* the columns of SELECT: the selected fields, else the schema's, without
\* the ignored ones
SelectedColumns(b, ignore_fields) ==
    LET from == IF b.selected_fields # <<>> THEN b.selected_fields ELSE b.schema.fields
    IN  SelectSeq(from, LAMBDA f : f.name \notin Names(ignore_fields))

\* one index hint of MySQL; FORCE INDEX leaves its scope unquoted
IndexHint(kw, hint, type) ==
    <<Kw(kw)>>
    \o (IF hint.for = "" THEN <<>>
        ELSE IF kw = "FORCE INDEX" THEN <<Raw(hint.for)>>
        ELSE <<Id(quote(type, hint.for))>>)
    \o <<Kw("(")>> \o QuotedNames(hint.indexes, type, ",") \o <<Kw(")")>>

IndexHints(kw, hints, type) ==
    Flatten([i \in DOMAIN hints |-> IndexHint(kw, hints[i], type)])

\* The clauses of the Crud statements.  Each takes the compilation r of the
\* text before it and returns r extended by its clause, or what was raised.

\* the index hints of to_select_sql
Crud_hints(r, self, type) ==
    LET b == r.st.heap[self]
    IN  IF r.raised # NoException THEN r
        ELSE IF type = MYSQL
        THEN Ok(r.st, r.sql \o IndexHints("USE INDEX", b.use_indexes, type)
                            \o IndexHints("IGNORE INDEX", b.ignore_indexes, type)
                            \o IndexHints("FORCE INDEX", b.force_indexes, type))
        ELSE IF type = SQLITE
        THEN LET use == IF b.use_indexes # <<>> THEN b.use_indexes ELSE b.force_indexes
             IN  Ok(r.st, r.sql
                          \o (IF use # <<>>
                              THEN <<Kw("INDEXED BY"), Id(quote(type, use[1].indexes[1]))>>
                              ELSE <<>>)
                          \o (IF b.ignore_indexes # <<>> THEN <<Kw("NOT INDEXED")>> ELSE <<>>))
        ELSE IF b.use_indexes # <<>> \/ b.force_indexes # <<>> \/ b.ignore_indexes # <<>>
        THEN Raise(r.st, "OperationException")
        ELSE r

\* " WHERE {self._where.sync(self).to_sql(type=type)}" when _where is set
Crud_where_sql(r, self, type, path) ==
    IF r.raised # NoException THEN r
    ELSE IF r.st.heap[self].where = Null THEN r
    ELSE Wrap(r.sql \o <<Kw("WHERE")>>,
              Call("to_sql", SQLMarker_sync(r.st, r.st.heap[self].where.o, self),
                   r.st.heap[self].where.o, type, path, <<>>),
              <<>>)

\* the WHERE clause of to_select_sql: the conditions, else the raw text
Crud_select_where(r, self, type, path) ==
    IF r.raised # NoException THEN r
    ELSE IF r.st.heap[self].where # Null THEN Crud_where_sql(r, self, type, path)
    ELSE IF r.st.heap[self].raw_where # ""
    THEN Ok(r.st, r.sql \o <<Kw("WHERE"), Raw(r.st.heap[self].raw_where)>>)
    ELSE r

\* the ORDER BY items from the i-th on; sql is the text built so far
Crud_order_by_items(st, self, type, path, i, sql) ==
    LET b == st.heap[self]
    IN  IF i > Len(b.order_by) THEN Ok(st, sql)
        ELSE Continue(IF b.order_by[i].t = "field"
                      THEN Ok(st, <<Id(quote(type, b.order_by[i].f.name))>>)
                      ELSE Call("to_sql", SQLMarker_sync(st, b.order_by[i].o, self),
                                b.order_by[i].o, type, path, <<>>),
                      "Crud_order_by_items", self, type, path,
                      [i |-> i + 1, sql |-> <<>>],
                      sql \o (IF i > 1 THEN <<Kw(",")>> ELSE <<>>),
                      <<Kw(IF b.order_by_asc[i] THEN "ASC" ELSE "DESC")>>)

\* the ORDER BY clause of to_select_sql
Crud_order_by(r, self, type, path) ==
    IF r.raised # NoException THEN r
    ELSE IF r.st.heap[self].order_by = <<>> THEN r
    ELSE Crud_order_by_items(r.st, self, type, path, 1, r.sql \o <<Kw("ORDER BY")>>)

\* LIMIT and OFFSET of to_select_sql
Crud_limit(r, self) ==
    IF r.raised # NoException THEN r
    ELSE IF r.st.heap[self].limit = 0 THEN r
    ELSE Wrap(r.sql \o <<Kw("LIMIT")>>,
              Marked(SQLMarker_mark(r.st, self, PyInt(r.st.heap[self].limit))),
              <<>>)

Crud_offset(r, self) ==
    IF r.raised # NoException THEN r
    ELSE IF r.st.heap[self].offset = 0 THEN r
    ELSE IF r.st.heap[self].limit = 0 THEN Raise(r.st, "AssertionError")
    ELSE Wrap(r.sql \o <<Kw("OFFSET")>>,
              Marked(SQLMarker_mark(r.st, self, PyInt(r.st.heap[self].offset))),
              <<>>)

\* the lock clause of to_select_sql
Crud_lock(r, self, type) ==
    LET b == r.st.heap[self]
    IN  IF r.raised # NoException THEN r
        ELSE IF b.for_update
        THEN IF type = SQLITE THEN Raise(r.st, "OperationException")
             ELSE Ok(r.st, r.sql \o <<Kw("FOR UPDATE")>>)
        ELSE IF b.for_share /\ type # SQLITE
        THEN IF type = MYSQL THEN Ok(r.st, r.sql \o <<Kw("LOCK IN SHARE MODE")>>)
             ELSE Ok(r.st, r.sql \o <<Kw("FOR SHARE")>>)
        ELSE r

\* Crud.to_select_sql
Crud_to_select_sql(st, self, count, type, fields, ignore_fields, path) ==
    LET st1 == [st EXCEPT !.heap[self].selected_fields = @ \o fields]
        b == st1.heap[self]
        head == IF ~count
                THEN <<Kw("SELECT")>>
                     \o QuotedNames([i \in DOMAIN SelectedColumns(b, ignore_fields) |->
                                        SelectedColumns(b, ignore_fields)[i].name], type, ",")
                     \o <<Kw("FROM"), Id(quote(type, b.schema.name))>>
                ELSE <<Kw("SELECT"), Kw("COUNT(*)"), Kw("FROM"), Id(quote(type, b.schema.name))>>
        where == Crud_select_where(Crud_hints(Ok(st1, head), self, type), self, type, path)
    IN  IF st.heap[self].schema = Null THEN Raise(st, "AssertionError")
        ELSE Wrap(<<>>,
                  IF count THEN where
                  ELSE Crud_lock(Crud_offset(Crud_limit(
                           Crud_order_by(where, self, type, path), self), self), self, type),
                  <<Kw(";")>>)

\* Crud.to_delete_sql
Crud_to_delete_sql(st, self, type, path) ==
    IF st.heap[self].schema = Null THEN Raise(st, "AssertionError")
    ELSE Wrap(<<>>,
              Crud_where_sql(Ok(st, <<Kw("DELETE"), Kw("from"),
                                      Id(quote(type, st.heap[self].schema.name))>>),
                             self, type, path),
              <<Kw(";")>>)

\* {f.model_name: f for f in fields}[k]; Null stands for a KeyError
FieldByModelName(fields, k) ==
    IF \E i \in DOMAIN fields : fields[i].model_name = k
    THEN fields[CHOOSE i \in DOMAIN fields :
                    /\ fields[i].model_name = k
                    /\ \A j \in (i + 1)..Len(fields) : fields[j].model_name # k]
    ELSE Null

\* the assignments of to_update_sql from the i-th item of data on; sql is the
\* text built so far
Crud_set_items(st, self, data, type, path, i, sql) ==
    IF i > Len(data) THEN Ok(st, sql)
    ELSE LET k == data[i].k
             v == data[i].v
             f == FieldByModelName(st.heap[self].schema.fields, k)
         IN  Continue(IF v.t = "obj"
                      THEN Call("to_sql", SQLMarker_sync(st, v.o, self), v.o, type, path, <<>>)
                      ELSE IF f = Null THEN Raise(st, "KeyError")
                      ELSE Marked(SQLMarker_mark(st, self, Field_to_database(f, ValueOf(v)))),
                      "Crud_set_items", self, type, path,
                      [data |-> data, i |-> i + 1, sql |-> <<>>],
                      sql \o (IF i > 1 THEN <<Kw(",")>> ELSE <<>>)
                          \o <<Id(quote(type, k)), Kw("=")>>,
                      <<>>)

\* Crud.to_update_sql
Crud_to_update_sql(st, self, data, type, path) ==
    IF st.heap[self].schema = Null THEN Raise(st, "AssertionError")
    ELSE Wrap(<<>>,
              Crud_where_sql(
                  Crud_set_items(st, self, data, type, path, 1,
                                 <<Kw("UPDATE"), Id(quote(type, st.heap[self].schema.name)),
                                   Kw("SET")>>),
                  self, type, path),
              <<Kw(";")>>)

\* sql[:-1]: the compilation r without the last token of its text
WithoutLast(r) ==
    IF r.raised # NoException THEN r ELSE Ok(r.st, SubSeq(r.sql, 1, Len(r.sql) - 1))

\* to_sql of the marker object self; path holds the objects whose to_sql
\* is running: reaching one of them again recurses until Python gives up.
\* (Crud.to_sql is to_select_sql without the final ";".)
SQLMarker_to_sql(st, self, type, path) ==
    IF self \in path THEN Raise(st, "RecursionError")
    ELSE IF st.heap[self].cls = "SQLExpression"
    THEN SQLExpression_to_sql(st, self, type, path \cup {self})
    ELSE IF st.heap[self].cls = "SQLCase"
    THEN SQLCase_to_sql(st, self, type, path \cup {self})
    ELSE IF st.heap[self].cls = "Crud"
    THEN WithoutLast(Crud_to_select_sql(st, self, FALSE, type, <<>>, <<>>, path \cup {self}))
    ELSE Ok(st, <<>>)

Call(f, st, self, type, path, a) ==
    IF f = "to_sql" THEN SQLMarker_to_sql(st, self, type, path)
    ELSE IF f = "ParseEach" THEN ParseEach(st, self, a.values, type, path, a.i, a.sql)
    ELSE IF f = "SQLExpression_values"
    THEN SQLExpression_values(st, self, type, path, a.i, a.sql)
    ELSE IF f = "SQLCase_cases" THEN SQLCase_cases(st, self, type, path, a.i, a.sql)
    ELSE IF f = "SQLCase_then" THEN SQLCase_then(st, self, type, path, a.i, a.sql)
    ELSE IF f = "Crud_order_by_items"
    THEN Crud_order_by_items(st, self, type, path, a.i, a.sql)
    ELSE Crud_set_items(st, self, a.data, type, path, a.i, a.sql)

(***************************************************************************)
(* Building expressions and builders.                                      *)
(***************************************************************************)
\* Field.__eq__, __gt__, __add__, contains, like, ...: a new SQLExpression
Field_op(st, f, op, other) ==
    NewMarker(st, [cls |-> "SQLExpression", field |-> f,
                   values |-> <<[op |-> op, value |-> other]>>])

\* SQLExpression.__eq__, __and__, __or__, __add__, ...: self, extended
SQLExpression_op(st, self, op, other) ==
    [st EXCEPT !.heap[self].values = Append(@, [op |-> op, value |-> other])]

\* bool(x) of an operand
Truthy(operand) ==
    IF operand.t = "lit"
    THEN IF operand.v.py \in {"int", "bool"} THEN operand.v.v # 0
         ELSE IF operand.v.py = "str" THEN operand.v.v # ""
         ELSE operand.v.py # "None"
    ELSE IF operand.t = "list" THEN operand.l # <<>>
    ELSE TRUE

\* Field.case
Field_case(st, f, expression, value, default) ==
    NewMarker(st, [cls |-> "SQLCase", field |-> f,
                   default |-> IF Truthy(default) THEN default ELSE Lit(f.default),
                   cast_type |-> f.type,
                   cases |-> <<[ex |-> expression, v |-> value]>>])

\* Crud(schema=schema)
NewCrud(st, schema) ==
    NewMarker(st, [cls |-> "Crud", field |-> Null, schema |-> schema,
                   where |-> Null, raw_where |-> "", limit |-> 0, offset |-> 0,
                   order_by |-> <<>>, order_by_asc |-> <<>>,
                   for_update |-> FALSE, for_share |-> FALSE,
                   use_indexes |-> <<>>, ignore_indexes |-> <<>>,
                   force_indexes |-> <<>>, selected_fields |-> <<>>])

\* reduce(lambda c1, c2: c1 & c2 if is_and else c1 | c2, conditions) from
\* the i-th condition on: every step extends the first condition
RECURSIVE ReduceConditions(_, _, _, _)
ReduceConditions(st, conditions, is_and, i) ==
    IF i > Len(conditions) THEN st
    ELSE ReduceConditions(
             SQLExpression_op(st, conditions[1], IF is_and THEN "AND" ELSE "OR",
                              Obj(conditions[i])),
             conditions, is_and, i + 1)

\* Crud.where
Crud_where(st, self, conditions, raw, is_and) ==
    IF conditions # <<>>
    THEN LET st1 == ReduceConditions(st, conditions, is_and, 2)
             _where == conditions[1]
         IN  IF st.heap[self].where # Null
             THEN SQLExpression_op(st1, st.heap[self].where.o, "AND", Obj(_where))
             ELSE [st1 EXCEPT !.heap[self].where = Obj(_where)]
    ELSE IF raw # "" THEN [st EXCEPT !.heap[self].raw_where = raw]
    ELSE st

\* Crud.select, limit, offset, order_by, for_update, for_share
Crud_select(st, self, fields) ==
    [st EXCEPT !.heap[self].selected_fields = @ \o fields]

Crud_limit_call(st, self, n) == [st EXCEPT !.heap[self].limit = n]

Crud_offset_call(st, self, n) == [st EXCEPT !.heap[self].offset = n]

Crud_order_by_call(st, self, f, asc) ==
    [st EXCEPT !.heap[self].order_by = @ \o f,
               !.heap[self].order_by_asc = @ \o [i \in DOMAIN f |-> asc]]

Crud_for_update(st, self) == [st EXCEPT !.heap[self].for_update = TRUE]

Crud_for_share(st, self) == [st EXCEPT !.heap[self].for_share = TRUE]

\* Crud.use_index, ignore_index, force_index
Crud_use_index(st, self, indexes, for) ==
    [st EXCEPT !.heap[self].use_indexes = Append(@, [indexes |-> indexes, for |-> for])]

Crud_ignore_index(st, self, indexes, for) ==
    [st EXCEPT !.heap[self].ignore_indexes = Append(@, [indexes |-> indexes, for |-> for])]

Crud_force_index(st, self, indexes, for) ==
    [st EXCEPT !.heap[self].force_indexes = Append(@, [indexes |-> indexes, for |-> for])]

(***************************************************************************)
(* Insert                                                                  *)
(***************************************************************************)
\* Insert(schema=..., insert_data=..., update_fields=..., conflict_targets=...)
\* a row of insert_data is the sequence of its (key, value) items
NewInsert(st, schema, insert_data, update_fields, conflict_targets) ==
    NewMarker(st, [cls |-> "Insert", field |-> Null, schema |-> schema,
                   insert_data |-> insert_data, update_fields |-> update_fields,
                   conflict_targets |-> conflict_targets])

\* {f.name: f for f in fields}[k]; Null stands for a KeyError
FieldByName(fields, k) ==
    IF k \in DOMAIN FieldsByName(fields) THEN FieldsByName(fields)[k] ELSE Null

\* d[k]; Null stands for a KeyError
DictGet(d, k) ==
    IF \E i \in DOMAIN d : d[i].k = k
    THEN d[CHOOSE i \in DOMAIN d : d[i].k = k].v
    ELSE Null

\* the marking loops of Insert.to_sql from row i, key j on; names holds the
\* placeholder names of the rows marked so far
RECURSIVE Insert_marks(_, _, _, _, _, _)
Insert_marks(st, self, keys, i, j, names) ==
    LET b == st.heap[self]
    IN  IF i > Len(b.insert_data) THEN [st |-> st, names |-> names, raised |-> NoException]
        ELSE IF j > Len(keys) THEN Insert_marks(st, self, keys, i + 1, 1, names)
        ELSE LET f == FieldByName(b.schema.fields, keys[j])
                 v == DictGet(b.insert_data[i], keys[j])
             IN  IF f = Null \/ v = Null
                 THEN [st |-> st, names |-> names, raised |-> "KeyError"]
                 ELSE LET m == SQLMarker_mark(st, self, Field_to_database(f, v))
                          row == IF j = 1 THEN <<m.k>> ELSE Append(names[i], m.k)
                      IN  Insert_marks(m.st, self, keys, i, j + 1,
                              [r \in 1..i |-> IF r = i THEN row ELSE names[r]])

\* ', '.join of unquoted names
PlainNames(names, sep) ==
    Join([i \in DOMAIN names |-> <<Raw(names[i])>>], <<Kw(sep)>>)

\* "k = VALUES(k)" and "k = excluded.k" of the upsert clause
Assignments(update_fields, style) ==
    Join([i \in DOMAIN update_fields |->
             IF style = "VALUES"
             THEN <<Raw(update_fields[i]), Kw("="), Kw("VALUES"), Kw("("),
                    Raw(update_fields[i]), Kw(")")>>
             ELSE <<Raw(update_fields[i]), Kw("="), Kw(style), Kw("."),
                    Raw(update_fields[i])>>],
         <<Kw(",")>>)

\* the upsert branch of Insert.to_sql that accepts any conflict_targets
Insert_upsert_lenient(st, self, type) ==
    LET b == st.heap[self]
        targets == IF b.conflict_targets # <<>>
                   THEN <<Kw("(")>> \o PlainNames(b.conflict_targets, ",") \o <<Kw(")")>>
                   ELSE <<>>
    IN  IF b.update_fields = <<>> THEN Ok(st, <<>>)
        ELSE IF type = MYSQL
        THEN Ok(st, <<Kw("ON DUPLICATE KEY UPDATE")>> \o Assignments(b.update_fields, "VALUES"))
        ELSE IF type = SQLITE
        THEN Ok(st, <<Kw("ON CONFLICT")>> \o targets \o <<Kw("DO UPDATE SET")>>
                    \o Assignments(b.update_fields, "excluded"))
        ELSE Ok(st, <<Kw("ON CONFLICT")>> \o targets \o <<Kw("DO UPDATE SET")>>
                    \o Assignments(b.update_fields, "EXCLUDED"))

\* the upsert branch of Insert.to_sql
Insert_upsert(st, self, type) ==
    LET b == st.heap[self]
        targets == IF b.conflict_targets # <<>>
                   THEN <<Kw("(")>> \o PlainNames(b.conflict_targets, ",") \o <<Kw(")")>>
                   ELSE <<>>
    IN  IF b.update_fields = <<>> THEN Ok(st, <<>>)
        ELSE IF type = MYSQL
        THEN IF b.conflict_targets # <<>> THEN Raise(st, "OperationException")
             ELSE Ok(st, <<Kw("ON DUPLICATE KEY UPDATE")>>
                         \o Assignments(b.update_fields, "VALUES"))
        ELSE IF type = SQLITE
        THEN Ok(st, <<Kw("ON CONFLICT")>> \o targets \o <<Kw("DO UPDATE SET")>>
                    \o Assignments(b.update_fields, "excluded"))
        ELSE IF b.conflict_targets = <<>> THEN Raise(st, "OperationException")
        ELSE Ok(st, <<Kw("ON CONFLICT")>> \o targets \o <<Kw("DO UPDATE SET")>>
                    \o Assignments(b.update_fields, "EXCLUDED"))

\* Insert.to_sql
Insert_to_sql(st, self, type) ==
    LET b == st.heap[self]
        keys == [j \in DOMAIN b.insert_data[1] |-> b.insert_data[1][j].k]
        m == Insert_marks(st, self, keys, 1, 1, <<>>)
        values == Join([i \in DOMAIN m.names |->
                           <<Kw("(")>>
                           \o Join([j \in DOMAIN m.names[i] |-> <<Ph(m.names[i][j])>>],
                                   <<Kw(",")>>)
                           \o <<Kw(")")>>],
                       <<Kw(",")>>)
    IN  IF b.insert_data = <<>> \/ b.schema = Null THEN Raise(st, "AssertionError")
        ELSE IF m.raised # NoException THEN Raise(m.st, m.raised)
        ELSE Wrap(<<Kw("INSERT INTO"), Id(quote(type, b.schema.name)), Kw("(")>>
                  \o QuotedNames(keys, type, ",")
                  \o <<Kw(")"), Kw("VALUES")>> \o values,
                  Insert_upsert(m.st, self, type),
                  (IF type = POSTGRES
                   THEN <<Kw("RETURNING"), Raw(primary_field(b.schema).name)>>
                   ELSE <<>>)
                  \o <<Kw(";")>>)

(***************************************************************************)
(* Model.update                                                            *)
(***************************************************************************)
\* Model.dump: the items of data, keyed by the storage names
Model_dump(schema, self, fields) ==
    LET dumped == SelectSeq(schema.fields,
                            LAMBDA f : fields = <<>> \/ f.name \in Names(fields))
    IN  [i \in DOMAIN dumped |->
            [k |-> dumped[i].name, v |-> Lit(self[dumped[i].model_name])]]

\* Model.primary
Model_primary(schema, self) == self[primary_field(schema).model_name]

\* Model.update, from assert self.primary to the statement compiled by
\* where(primary_field == self.primary).update(**data); the builder is st's
\* next object
Model_update(st, schema, self, fields, type) ==
    IF ~Truthy(Lit(Model_primary(schema, self))) THEN Raise(st, "AssertionError")
    ELSE Crud_to_update_sql(
             Crud_where(Field_op(NewCrud(st, schema), primary_field(schema), "=",
                                 Lit(Model_primary(schema, self))),
                        NewId(st), <<NewId(st) + 1>>, "", TRUE),
             NewId(st), Model_dump(schema, self, fields), type, {NewId(st)})

(***************************************************************************)
(* CaseUpdate                                                              *)
(***************************************************************************)
\* CaseUpdate(schema=..., data=...); a row of data is the sequence of its
\* (key, value) items
NewCaseUpdate(st, schema, data) ==
    NewMarker(st, [cls |-> "CaseUpdate", field |-> Null, schema |-> schema,
                   data |-> data])

\* the elements of a sequence in the order of their first appearance (the
\* key order of a dict filled from it)
RECURSIVE Distinct(_)
Distinct(s) ==
    IF s = <<>> THEN <<>>
    ELSE IF s[Len(s)] \in Range(SubSeq(s, 1, Len(s) - 1))
    THEN Distinct(SubSeq(s, 1, Len(s) - 1))
    ELSE Append(Distinct(SubSeq(s, 1, Len(s) - 1)), s[Len(s)])

\* the first loop of CaseUpdate.to_sql: one entry per item of a row that is
\* not the primary key, with the row's primary value (Null: the row has none)
CaseUpdate_entries(data, pk) ==
    Flatten([i \in DOMAIN data |->
                LET items == SelectSeq(data[i], LAMBDA it : it.k # pk)
                IN  [j \in DOMAIN items |->
                        [k |-> items[j].k, pv |-> DictGet(data[i], pk),
                         v |-> items[j].v]]])

\* primary_values: the primary values of the rows, in order
CaseUpdate_primary_values(data, pk) ==
    Flatten([i \in DOMAIN data |->
                LET items == SelectSeq(data[i], LAMBDA it : it.k = pk)
                IN  [j \in DOMAIN items |-> items[j].v]])

\* parse_data[k]: the (primary value, value) pairs of column k in the order
\* the primary values were first written, each with the value written last
CaseUpdate_parse_data(entries, fields, k) ==
    LET of_k == SelectSeq(entries, LAMBDA e : e.k = k)
        pvs == Distinct([i \in DOMAIN of_k |-> of_k[i].pv])
    IN  [i \in DOMAIN pvs |->
            [pv |-> pvs[i],
             v |-> Field_to_database(
                       FieldByName(fields, k),
                       of_k[CHOOSE j \in DOMAIN of_k :
                               /\ of_k[j].pv = pvs[i]
                               /\ \A l \in (j + 1)..Len(of_k) : of_k[l].pv # pvs[i]].v)]]

\* case.case(self.schema.primary_field == pv, v) for the pairs from the
\* i-th on: the store with the new expressions, and the cases
RECURSIVE CaseUpdate_cases(_, _, _, _, _)
CaseUpdate_cases(st, primary, pairs, i, cases) ==
    IF i > Len(pairs) THEN [st |-> st, cases |-> cases]
    ELSE CaseUpdate_cases(Field_op(st, primary, "=", Lit(pairs[i].pv)), primary, pairs,
                          i + 1,
                          Append(cases, [ex |-> Obj(NewId(st)), v |-> Lit(pairs[i].v)]))

\* SQLCase(cast_type=...) with the cases c.cases, in the store c.st
CaseUpdate_case(c, cast_type) ==
    NewMarker(c.st, [cls |-> "SQLCase", field |-> Null, default |-> Lit(PyNone),
                     cast_type |-> cast_type, cases |-> c.cases])

\* the second loop of CaseUpdate.to_sql, from the i-th column of parse_data
\* on; r is the compilation of the text before it
RECURSIVE CaseUpdate_set(_, _, _, _, _, _)
CaseUpdate_set(r, self, entries, columns, type, i) ==
    IF r.raised # NoException \/ i > Len(columns) THEN r
    ELSE LET schema == r.st.heap[self].schema
             c == CaseUpdate_cases(
                      r.st, primary_field(schema),
                      CaseUpdate_parse_data(entries, schema.fields, columns[i]), 1, <<>>)
             case == NewId(c.st)
             st1 == CaseUpdate_case(c, FieldByName(schema.fields, columns[i]).type)
         IN  CaseUpdate_set(
                 Wrap(r.sql \o (IF i > 1 THEN <<Kw(",")>> ELSE <<>>)
                            \o <<Id(quote(type, columns[i])), Kw("=")>>,
                      Call("to_sql", SQLMarker_sync(st1, case, self), case, type, {}, <<>>),
                      <<>>),
                 self, entries, columns, type, i + 1)

\* " WHERE {primary_field.contains(primary_values).sync(self).to_sql()};"
CaseUpdate_where(r, self, primary_values, type) ==
    IF r.raised # NoException THEN r
    ELSE IF primary_values = <<>> THEN Raise(r.st, "ValueError")
    ELSE Wrap(r.sql \o <<Kw("WHERE")>>,
              Call("to_sql",
                   SQLMarker_sync(
                       Field_op(r.st, primary_field(r.st.heap[self].schema), "IN",
                                List([i \in DOMAIN primary_values |->
                                         Lit(primary_values[i])])),
                       NewId(r.st), self),
                   NewId(r.st), type, {}, <<>>),
              <<Kw(";")>>)

\* CaseUpdate.to_sql
CaseUpdate_to_sql(st, self, type) ==
    LET b == st.heap[self]
        pk == primary_field(b.schema).name
        entries == CaseUpdate_entries(b.data, pk)
    IN  IF b.data = <<>> \/ b.schema = Null THEN Raise(st, "AssertionError")
        ELSE IF \E i \in DOMAIN entries :
                    entries[i].pv = Null \/ FieldByName(b.schema.fields, entries[i].k) = Null
        THEN Raise(st, "KeyError")
        ELSE CaseUpdate_where(
                 CaseUpdate_set(
                     Ok(st, <<Kw("UPDATE"), Id(quote(type, b.schema.name)), Kw("SET")>>),
                     self, entries, Distinct([i \in DOMAIN entries |-> entries[i].k]),
                     type, 1),
                 self, CaseUpdate_primary_values(b.data, pk), type)

(***************************************************************************)
(* The schemas the model is run on.                                        *)
(***************************************************************************)
IdField == Field("IntField", "id", "id", S_int, PyInt(0), TRUE, TRUE, TRUE, "")
FieldChoicesA == {Field("IntField", "a", "a", S_int, PyInt(0), FALSE, FALSE, TRUE, ""),
                  Field("IntField", "a", "a", S_bigint, PyInt(0), FALSE, FALSE, TRUE, "")}
FieldChoicesB == {Field("IntField", "b", "b", S_int, PyInt(0), FALSE, FALSE, TRUE, ""),
                  Field("Field", "b", "b", S_int10, NoDefault, FALSE, FALSE, FALSE, "note")}

\* the index keys a schema may declare, in declaration order
IndexChoices == << <<FALSE, <<"a">> >>, <<TRUE, <<"b">> >>,
                   <<FALSE, <<"a", "b">> >>, <<FALSE, <<"b", "a">> >> >>

\* the schema of the chosen fields (Null: the field is not declared) and keys
SchemaOf(name, rnd, fa, fb, ks) ==
    LET chosen == SelectSeq(IndexChoices, LAMBDA k : k \in ks)
    IN  Schema(name,
               <<IdField>> \o (IF fa = Null THEN <<>> ELSE <<fa>>)
                           \o (IF fb = Null THEN <<>> ELSE <<fb>>),
               [i \in DOMAIN chosen |->
                   Index(chosen[i][2], chosen[i][1],
                         GeneratedIndexName(chosen[i][2], chosen[i][1], rnd))])

\* the index key sets a schema with fields fa and fb can declare
KeySets(fa, fb) ==
    LET present == (IF fa = Null THEN {} ELSE {"a"}) \cup (IF fb = Null THEN {} ELSE {"b"})
    IN  {x \in SUBSET Range(IndexChoices) :
            /\ Cardinality(x) <= MaxIndexes
            /\ \A k \in x : Range(k[2]) \subseteq present}

\* the schemas named name whose generated index names drew rnd
Schemas(name, rnd) ==
    UNION {{SchemaOf(name, rnd, fa, fb, ks) : ks \in KeySets(fa, fb)} :
              fa \in FieldChoicesA \cup {Null}, fb \in FieldChoicesB \cup {Null}}

(***************************************************************************)
(* The migration run: diff the declared schema A against the database's   *)
(* schema B, compile and execute the migration, then invert, compile and   *)
(* execute the inverse.                                                    *)
(***************************************************************************)
VARIABLES A, B, type, pc, M, M2, Minv, out, db, eq

\* The second pair of schemas of a run that diffs two pairs (Av declared, Bv
\* in the database).
VARIABLES Av, Bv

\* The SQL builders: the marker objects the program holds (store), the
\* number of builder calls made so far (ncalls) and what the last compilation
\* returned or raised (result).
VARIABLES store, ncalls, result

\* the rows of the model's table in the database, by primary key: the
\* values of its columns
VARIABLES rows

\* no table of rows is part of the program
NoRows == <<>>

\* the calls that are running, by the thread or task that runs them: the
\* position in the call's code and the call's local variables
VARIABLES procs

\* no call is running
NoProcs == <<>>

mvars == <<A, B, type, pc, M, M2, Minv, out, db, eq, Av, Bv, rows, procs>>
bvars == <<store, ncalls, result>>
vars == <<A, B, type, pc, M, M2, Minv, out, db, eq, Av, Bv, rows, procs, store, ncalls, result>>

\* no marker object has been created
EmptyStore == [heap |-> <<>>, ids |-> <<>>, dicts |-> <<>>]

\* no builder is in use
NoBuilders == store = EmptyStore /\ ncalls = 0 /\ result = Null

Init ==
    /\ A \in Schemas("t", "r1")
    /\ B \in Schemas("t", "r2") \cup Schemas("t_old", "r2") \cup {A}
    /\ type \in DatabaseType
    /\ pc = "start"
    /\ M = Null /\ M2 = Null /\ Minv = Null /\ out = Null
    /\ db = TableOf(B)
    /\ eq = "not compared"
    /\ Av = Null /\ Bv = Null
    /\ rows = NoRows
    /\ procs = NoProcs
    /\ NoBuilders

\* migration = A - B
Diff ==
    /\ pc = "start"
    /\ M' \in Schema_sub(A, B)
    /\ pc' = "diffed"
    /\ UNCHANGED <<A, B, type, M2, Minv, out, db, eq>>
    /\ UNCHANGED <<Av, Bv, rows, procs>>
    /\ UNCHANGED bvars

\* the same subtraction evaluated once more (another run of the program)
DiffAgain ==
    /\ pc = "diffed"
    /\ M2' \in Schema_sub(A, B)
    /\ pc' = "rerun"
    /\ UNCHANGED <<A, B, type, M, Minv, out, db, eq>>
    /\ UNCHANGED <<Av, Bv, rows, procs>>
    /\ UNCHANGED bvars

\* mutant: the exception of the compilation is swallowed and the text
\* rendered so far is returned
Compile_swallowed ==
    /\ pc \in {"diffed", "inverted"}
    /\ LET m == IF pc = "diffed" THEN M ELSE Minv
           r == Migration_to_sql(m, type)
       IN  out' = [of |-> m, raised |-> NoException, sqls |-> r.sqls]
    /\ pc' = IF pc = "diffed" THEN "compiled" ELSE "compiled_inv"
    /\ UNCHANGED <<A, B, type, M, M2, Minv, db, eq>>
    /\ UNCHANGED <<Av, Bv, rows, procs>>
    /\ UNCHANGED bvars

\* migration.to_sql(type), of the migration or of its inverse
Compile ==
    /\ pc \in {"diffed", "inverted"}
    /\ LET m == IF pc = "diffed" THEN M ELSE Minv
           r == Migration_to_sql(m, type)
       IN  out' = [of |-> m, raised |-> r.raised, sqls |-> r.sqls]
    /\ pc' = IF pc = "diffed" THEN "compiled" ELSE "compiled_inv"
    /\ UNCHANGED <<A, B, type, M, M2, Minv, db, eq>>
    /\ UNCHANGED <<Av, Bv, rows, procs>>
    /\ UNCHANGED bvars

\* db.execute(sql) of the compiled script
Execute ==
    /\ pc \in {"compiled", "compiled_inv"}
    /\ out.raised = NoException
    /\ db' = ExecuteScript(db, out.sqls, type)
    /\ pc' = IF pc = "compiled" THEN "migrated" ELSE "restored"
    /\ UNCHANGED <<A, B, type, M, M2, Minv, out, eq>>
    /\ UNCHANGED <<Av, Bv, rows, procs>>
    /\ UNCHANGED bvars

\* ~migration
Invert ==
    /\ pc = "migrated" \/ (pc = "compiled" /\ out.raised # NoException)
    /\ Minv' = Migration_invert(M)
    /\ pc' = "inverted"
    /\ UNCHANGED <<A, B, type, M, M2, out, db, eq>>
    /\ UNCHANGED <<Av, Bv, rows, procs>>
    /\ UNCHANGED bvars

\* A == B
Equals ==
    /\ pc = "start"
    /\ eq' = IF Schema_eq(A, B) THEN "True" ELSE "False"
    /\ pc' = "compared"
    /\ UNCHANGED <<A, B, type, M, M2, Minv, out, db>>
    /\ UNCHANGED <<Av, Bv, rows, procs>>
    /\ UNCHANGED bvars

Next == Diff \/ DiffAgain \/ Equals \/ Compile \/ Execute \/ Invert

Spec == Init /\ [][Next]_vars

(***************************************************************************)
(* The create run: diff the declared schema A against no schema, compile,  *)
(* invert and compile the inverse, invert again and compile again.         *)
(***************************************************************************)
InitCreate ==
    /\ A \in Schemas("t", "r1")
    /\ B = Null
    /\ type \in DatabaseType
    /\ pc = "start"
    /\ M = Null /\ M2 = Null /\ Minv = Null /\ out = Null
    /\ db = NoTable /\ eq = "not compared"
    /\ Av = Null /\ Bv = Null
    /\ rows = NoRows
    /\ procs = NoProcs
    /\ NoBuilders

\* ~migration, after it was compiled
InvertCompiled ==
    /\ pc = "compiled"
    /\ Minv' = Migration_invert(M)
    /\ pc' = "inverted"
    /\ UNCHANGED <<A, B, type, M, M2, out, db, eq, Av, Bv, rows, procs>>
    /\ UNCHANGED bvars

\* ~~migration, after the inverse was compiled
InvertBack ==
    /\ pc = "compiled_inv"
    /\ M2' = Migration_invert(Minv)
    /\ pc' = "inverted back"
    /\ UNCHANGED <<A, B, type, M, Minv, out, db, eq, Av, Bv, rows, procs>>
    /\ UNCHANGED bvars

\* (~~migration).to_sql(type)
CompileBack ==
    /\ pc = "inverted back"
    /\ LET r == Migration_to_sql(M2, type)
       IN  out' = [of |-> M2, raised |-> r.raised, sqls |-> r.sqls]
    /\ pc' = "compiled back"
    /\ UNCHANGED <<A, B, type, M, M2, Minv, db, eq, Av, Bv, rows, procs>>
    /\ UNCHANGED bvars

NextCreate == Diff \/ Compile \/ InvertCompiled \/ InvertBack \/ CompileBack

SpecCreate == InitCreate /\ [][NextCreate]_vars

(***************************************************************************)
(* The diff runs.  A program diffs a declared schema A against a schema B, *)
(* and beside it a second pair Av, Bv that differs from the first only in  *)
(* attributes that are no key of the diff; or A against Av; or A against B *)
(* and B against A.                                                        *)
(***************************************************************************)
\* more spellings of column types
S_INT == <<"I","N","T">>
S_bigint20 == <<"b","i","g","i","n","t","(","2","0",")">>
S_varchar10 == <<"v","a","r","c","h","a","r","(","1","0",")">>
S_varchar20 == <<"v","a","r","c","h","a","r","(","2","0",")">>
S_interval3 == <<"i","n","t","e","r","v","a","l","(","3",")">>
S_interval6 == <<"i","n","t","e","r","v","a","l","(","6",")">>

\* the types the column x is declared with
TypeChoices == {S_int, S_INT, S_serial, S_integer, S_int10,
                S_bigint, S_bigint20, S_varchar10, S_varchar20,
                S_interval3, S_interval6}

FieldX(t) == Field("Field", "x", "x", t, PyInt(0), FALSE, FALSE, TRUE, "")
FieldY == Field("IntField", "y", "y", S_int, PyInt(0), FALSE, FALSE, TRUE, "")

\* the index lists a schema of the diff runs declares on x
IndexListsOnX(rnd) ==
    {<<>>,
     <<Index(<<"x">>, FALSE, GeneratedIndexName(<<"x">>, FALSE, rnd))>>,
     <<Index(<<"x">>, TRUE, GeneratedIndexName(<<"x">>, TRUE, rnd))>>}

\* the schemas of the diff runs whose generated index names drew rnd
DiffSchemas(rnd) ==
    {Schema("t", <<IdField, FieldX(t)>> \o ys, idx) :
        t \in TypeChoices, ys \in {<<>>, <<FieldY>>}, idx \in IndexListsOnX(rnd)}

\* the schema s with other attributes on its fields other than id
WithAttributes(s, default, comment, not_null, primary, auto_increment) ==
    [s EXCEPT !.fields =
        [k \in DOMAIN s.fields |->
            IF s.fields[k].name = "id" THEN s.fields[k]
            ELSE [s.fields[k] EXCEPT !.default = default, !.comment = comment,
                                     !.not_null = not_null, !.primary = primary,
                                     !.auto_increment = auto_increment]]]

\* the schema s with index names generated from another random draw
WithIndexNames(s, rnd) ==
    [s EXCEPT !.indexes =
        [k \in DOMAIN s.indexes |->
            Index(s.indexes[k].fields, s.indexes[k].unique,
                  GeneratedIndexName(s.indexes[k].fields, s.indexes[k].unique, rnd))]]

\* schemas that differ from s in field defaults, comments, nullability,
\* primary and auto-increment flags or index names only
Variants(s) ==
    {WithAttributes(s, PyInt(5), "", TRUE, FALSE, FALSE),
     WithAttributes(s, NoDefault, "note", FALSE, FALSE, FALSE),
     WithAttributes(s, PyInt(0), "", TRUE, TRUE, TRUE),
     WithIndexNames(WithAttributes(s, PyInt(5), "note", FALSE, TRUE, TRUE), "r3")}

InitDiff ==
    /\ A \in DiffSchemas("r1")
    /\ B \in DiffSchemas("r2")
    /\ Av \in Variants(A)
    /\ Bv \in Variants(B)
    /\ type = MYSQL
    /\ pc = "start"
    /\ M = Null /\ M2 = Null /\ Minv = Null /\ out = Null
    /\ db = NoTable /\ eq = "not compared"
    /\ rows = NoRows
    /\ procs = NoProcs
    /\ NoBuilders

\* A - B and Av - Bv
DiffPairs ==
    /\ pc = "start"
    /\ M' \in Schema_sub(A, B)
    /\ M2' \in Schema_sub(Av, Bv)
    /\ pc' = "diffed pairs"
    /\ UNCHANGED <<A, B, type, Minv, out, db, eq, Av, Bv, rows, procs>>
    /\ UNCHANGED bvars

\* A - Av
DiffVariant ==
    /\ pc = "start"
    /\ M' \in Schema_sub(A, Av)
    /\ pc' = "diffed variant"
    /\ UNCHANGED <<A, B, type, M2, Minv, out, db, eq, Av, Bv, rows, procs>>
    /\ UNCHANGED bvars

\* A - B and B - A
DiffReverse ==
    /\ pc = "start"
    /\ M' \in Schema_sub(A, B)
    /\ M2' \in Schema_sub(B, A)
    /\ pc' = "diffed reverse"
    /\ UNCHANGED <<A, B, type, Minv, out, db, eq, Av, Bv, rows, procs>>
    /\ UNCHANGED bvars

NextDiff == DiffPairs \/ DiffVariant \/ DiffReverse

SpecDiff == InitDiff /\ [][NextDiff]_vars

(***************************************************************************)
(* The index name run: the declared schema A takes the index names of the  *)
(* database's schema B.                                                    *)
(***************************************************************************)
\* A.sync_index_name(B)
SyncIndexName ==
    /\ pc = "start"
    /\ A' = Schema_sync_index_name(A, B).self
    /\ out' = Schema_sync_index_name(A, B).raised
    /\ pc' = "synced"
    /\ UNCHANGED <<B, type, M, M2, Minv, db, eq, Av, Bv, rows, procs>>
    /\ UNCHANGED bvars

NextSync == SyncIndexName

SpecSync == Init /\ [][NextSync]_vars

(***************************************************************************)
(* Claims about the differ and the migration compiler.                     *)
(***************************************************************************)
\* the schema read back from the database diffs to empty against s
DiffsToEmpty(s, d) ==
    /\ ~d.error
    /\ \A m \in Schema_sub(s, IntrospectedSchema(d, s.name)) : NoOperations(m)

\* the number of positions of a sequence that satisfy a test
Count(s, Test(_)) == Cardinality({i \in DOMAIN s : Test(s[i])})

\* C1: round trip. Executing the compiled statements of M = A - B, in order,
\* on a table of shape B leaves a table whose schema diffs to empty against
\* A; executing the statements of ~M after that leaves one whose schema
\* diffs to empty against B.
C1_RoundTrip ==
    /\ pc = "migrated" => DiffsToEmpty(A, db)
    /\ pc = "restored" => DiffsToEmpty(B, db)

\* C2: empty diff. S - S has five empty operation lists, compiles to the
\* empty text for every dialect, and S == S is true.
C2_EmptyDiff ==
    A = B =>
        /\ M # Null => NoOperations(M)
        /\ (out # Null /\ out.of = M) => (out.raised = NoException /\ out.sqls = <<>>)
        /\ pc = "compared" => eq = "True"

\* C2 witness: S - S was compiled, for a schema that has indexes
C2_Witness ==
    /\ A = B /\ A.indexes # <<>> /\ Len(A.fields) > 1
    /\ pc = "compiled" /\ out.of = M

\* C2 witness of the comparison: S == S was evaluated
C2_WitnessEq == A = B /\ pc = "compared"

\* C3: determinism. Two evaluations of A - B for the same A and B return the
\* same operation lists in the same order (and so the same SQL text).
C3_Deterministic == pc = "rerun" => M2 = M

\* C4: type-change classification. A name in both schemas with different
\* normalized types is exactly once in change_type_fields, with A's field
\* definition, and in neither add_fields nor drop_fields; add_fields holds
\* exactly the fields named only in A, drop_fields those named only in B; the
\* three lists are pairwise disjoint by name.
C4_TypeChange ==
    M # Null =>
        LET inA == FieldsByName(A.fields)
            inB == FieldsByName(B.fields)
            both == DOMAIN inA \cap DOMAIN inB
            changed == {n \in both :
                           NormalizedType(inA[n].type) # NormalizedType(inB[n].type)}
        IN  /\ Names(M.change_type_fields) = changed
            /\ \A n \in changed :
                   /\ Count(M.change_type_fields, LAMBDA f : f.name = n) = 1
                   /\ \A k \in DOMAIN M.change_type_fields :
                          M.change_type_fields[k].name = n
                              => M.change_type_fields[k] = inA[n]
            /\ Names(M.add_fields) = DOMAIN inA \ DOMAIN inB
            /\ Names(M.drop_fields) = DOMAIN inB \ DOMAIN inA
            /\ \A k \in DOMAIN M.add_fields : M.add_fields[k] = inA[M.add_fields[k].name]
            /\ \A k \in DOMAIN M.drop_fields : M.drop_fields[k] = inB[M.drop_fields[k].name]
            /\ Len(M.add_fields) = Cardinality(Names(M.add_fields))
            /\ Len(M.drop_fields) = Cardinality(Names(M.drop_fields))
            /\ Names(M.add_fields) \cap Names(M.drop_fields) = {}
            /\ Names(M.add_fields) \cap Names(M.change_type_fields) = {}
            /\ Names(M.drop_fields) \cap Names(M.change_type_fields) = {}

\* C4 witness: a diff with a type change beside an added or dropped field
\* and a field whose spelling of the type differs but not its normalized type
C4_Witness ==
    /\ M # Null
    /\ M.change_type_fields # <<>>
    /\ M.add_fields # <<>> \/ M.drop_fields # <<>>

\* C4 witness: b is int in one schema and int(10) in the other, and is no change
C4_WitnessSameNormalized ==
    /\ M # Null
    /\ \E i \in DOMAIN A.fields, j \in DOMAIN B.fields :
           /\ A.fields[i].name = B.fields[j].name
           /\ A.fields[i].type # B.fields[j].type
           /\ A.fields[i].name \notin Names(M.change_type_fields)

\* the statements of the compiled script that drop the index i
DropStatementsOf(i) ==
    {k \in DOMAIN out.sqls :
        out.sqls[k].op = "DROP INDEX" /\ Unquote(out.sqls[k].name) = i.name}

\* a compiled update in place: both schemas present, no exception
CompiledUpdate ==
    /\ out # Null
    /\ out.raised = NoException
    /\ out.of.schema # Null /\ out.of.old_schema # Null

\* the dropped index i has a column among the dropped fields
OnDroppedField(i) == Range(i.fields) \cap Names(out.of.drop_fields) # {}

\* C7 as claimed: for every dialect, a dropped index with a column among the
\* dropped fields gets no DROP INDEX statement, every other dropped index one.
C7_SuppressedEveryDialect ==
    CompiledUpdate =>
        \A k \in DOMAIN out.of.drop_indexes :
            LET i == out.of.drop_indexes[k]
            IN  Cardinality(DropStatementsOf(i)) = IF OnDroppedField(i) THEN 0 ELSE 1

\* C7 amended: for MySQL a dropped index with a column among the dropped
\* fields gets no DROP INDEX statement and every other dropped index exactly
\* one; for PostgreSQL and SQLite every dropped index gets exactly one.
C7_SuppressedMySQLOnly ==
    CompiledUpdate =>
        \A k \in DOMAIN out.of.drop_indexes :
            LET i == out.of.drop_indexes[k]
            IN  Cardinality(DropStatementsOf(i)) =
                    IF type = MYSQL /\ OnDroppedField(i) THEN 0 ELSE 1

\* C7 witness: a MySQL script that drops a field, an index on it and an
\* index on another field
C7_Witness ==
    /\ CompiledUpdate /\ type = MYSQL
    /\ \E k \in DOMAIN out.of.drop_indexes : OnDroppedField(out.of.drop_indexes[k])
    /\ \E k \in DOMAIN out.of.drop_indexes : ~OnDroppedField(out.of.drop_indexes[k])

\* the place of a statement kind in the order of an update in place
Rank(op) ==
    CASE op = "RENAME" -> 1
      [] op = "DROP INDEX" -> 2
      [] op \in {"ADD COLUMN", "DROP DEFAULT"} -> 3
      [] op = "DROP COLUMN" -> 4
      [] op \in {"MODIFY", "ALTER COLUMN TYPE"} -> 5
      [] op = "CREATE INDEX" -> 6

\* the index of the migration that a DROP INDEX statement names
DroppedBy(st) ==
    {out.of.drop_indexes[k].fields :
        k \in {j \in DOMAIN out.of.drop_indexes :
                  out.of.drop_indexes[j].name = Unquote(st.name)}}

C8_WitnessDrop ==
    /\ CompiledUpdate
    /\ \E i, j \in DOMAIN out.sqls :
           /\ out.sqls[i].op = "DROP INDEX" /\ out.sqls[j].op = "DROP COLUMN"
           /\ \E fs \in DroppedBy(out.sqls[i]) : Unquote(out.sqls[j].column) \in Range(fs)

\* C9: inversion. ~M has schema B and old_schema A, swaps add_fields with
\* drop_fields and add_indexes with drop_indexes, and its change_type_fields
\* holds, for exactly the names of M.change_type_fields, B's field
\* definitions (the old type), never A's.
C9_Inversion ==
    Minv # Null =>
        /\ Minv.schema = B /\ Minv.old_schema = A
        /\ Minv.add_fields = M.drop_fields /\ Minv.drop_fields = M.add_fields
        /\ Minv.add_indexes = M.drop_indexes /\ Minv.drop_indexes = M.add_indexes
        /\ Names(Minv.change_type_fields) = Names(M.change_type_fields)
        /\ Len(Minv.change_type_fields) = Len(M.change_type_fields)
        /\ \A k \in DOMAIN Minv.change_type_fields :
               LET f == Minv.change_type_fields[k]
               IN  /\ f = FieldsByName(B.fields)[f.name]
                   /\ f # FieldsByName(A.fields)[f.name]

\* C9 witness: the inverse of a migration with added and dropped indexes, a
\* dropped field and a type change
C9_Witness ==
    /\ Minv # Null
    /\ M.change_type_fields # <<>> /\ M.drop_fields # <<>>
    /\ M.add_indexes # <<>> /\ M.drop_indexes # <<>>

(***************************************************************************)
(* The builder runs.  A program builds one query on a model's schema by    *)
(* chaining builder calls and compiles it once; another program compiles   *)
(* one Insert.                                                             *)
(***************************************************************************)
\* the most builder calls chained before the statement is compiled
MaxCalls == 3

S_tinyint == <<"t","i","n","y","i","n","t">>
FieldA == Field("IntField", "a", "a", S_int, PyInt(0), FALSE, FALSE, TRUE, "")
FieldB == Field("BoolField", "b", "b", S_tinyint, PyBool(FALSE), FALSE, FALSE, TRUE, "")

\* the model's schema
ModelSchema == Schema("t", <<IdField, FieldA, FieldB>>, <<>>)

\* the marker objects of the query program, by identity
O == [builder |-> 1, a_eq_1 |-> 2, b_eq_true |-> 3, a_plus_b_gt_1 |-> 4,
      a_in_1_1 |-> 5, a_like_x |-> 6, a_plus_1 |-> 7, id_eq_1 |-> 8,
      a_case |-> 9, sub_a_eq_1 |-> 10, sub |-> 11, id_in_sub |-> 12,
      a_like_b |-> 13]

\* the store after the program has written its expressions:
\*   a == 1, b == True, (a + b) > 1, a.contains([1, 1]), a.like("x"), a + 1,
\*   a.case(id == 1, 1), id.contains(Crud(...).where(a == 1).limit(1)),
\*   a.like(b)
QueryStore ==
    LET s1 == NewCrud(EmptyStore, ModelSchema)
        s2 == Field_op(s1, FieldA, "=", Lit(PyInt(1)))
        s3 == Field_op(s2, FieldB, "=", Lit(PyBool(TRUE)))
        s4 == SQLExpression_op(Field_op(s3, FieldA, "+", FieldOperand(FieldB)),
                               NewId(s3), ">", Lit(PyInt(1)))
        s5 == Field_op(s4, FieldA, "IN", List(<<Lit(PyInt(1)), Lit(PyInt(1))>>))
        s6 == Field_op(s5, FieldA, "LIKE", Lit(PyStr("x")))
        s7 == Field_op(s6, FieldA, "+", Lit(PyInt(1)))
        s8 == Field_op(s7, IdField, "=", Lit(PyInt(1)))
        s9 == Field_case(s8, FieldA, Obj(NewId(s7)), Lit(PyInt(1)), Lit(PyNone))
        s10 == Field_op(s9, FieldA, "=", Lit(PyInt(1)))
        s11 == Crud_limit_call(
                   Crud_where(Crud_select(NewCrud(s10, ModelSchema), NewId(s10), <<IdField>>),
                              NewId(s10), <<NewId(s9)>>, "", TRUE),
                   NewId(s10), 1)
        s12 == Field_op(s11, IdField, "IN", Obj(NewId(s10)))
    IN  Field_op(s12, FieldA, "LIKE", FieldOperand(FieldB))

\* the arguments the program passes to where()
WhereCalls ==
    {[conditions |-> c, raw |-> "", is_and |-> TRUE] :
        c \in {<<O.a_eq_1>>, <<O.a_eq_1, O.b_eq_true>>, <<O.a_plus_b_gt_1>>,
               <<O.a_in_1_1, O.a_like_x>>, <<O.id_in_sub>>, <<O.a_like_b>>,
               <<O.a_eq_1, O.a_eq_1>>}}
    \cup {[conditions |-> <<O.a_eq_1, O.b_eq_true>>, raw |-> "", is_and |-> FALSE],
          [conditions |-> <<>>, raw |-> "a = 1", is_and |-> TRUE],
          [conditions |-> <<O.b_eq_true>>, raw |-> "a = 1", is_and |-> TRUE]}

\* the arguments the program passes to order_by()
OrderByCalls ==
    {[f |-> <<FieldOperand(FieldA)>>, asc |-> TRUE],
     [f |-> <<Obj(O.a_plus_1)>>, asc |-> FALSE]}

\* the data the program passes to update()
UpdateData ==
    {<<[k |-> "a", v |-> Lit(PyInt(1))]>>,
     <<[k |-> "a", v |-> Lit(PyInt(1))], [k |-> "b", v |-> Lit(PyBool(TRUE))]>>,
     <<[k |-> "a", v |-> Obj(O.a_plus_1)]>>,
     <<[k |-> "a", v |-> Obj(O.a_case)]>>}

\* the migration run is not part of this program
NoMigration ==
    /\ A = Null /\ B = Null /\ type = MYSQL /\ pc = "no migration"
    /\ M = Null /\ M2 = Null /\ Minv = Null /\ out = Null
    /\ db = NoTable /\ eq = "not compared"
    /\ Av = Null /\ Bv = Null
    /\ rows = NoRows
    /\ procs = NoProcs

InitCrud ==
    /\ NoMigration
    /\ store = QueryStore
    /\ ncalls = 0
    /\ result = Null

\* one more call can be chained
CanCall == result = Null /\ ncalls < MaxCalls

Called(st) ==
    /\ store' = st
    /\ ncalls' = ncalls + 1
    /\ UNCHANGED <<result, mvars>>

Where ==
    /\ CanCall
    /\ \E c \in WhereCalls :
          Called(Crud_where(store, O.builder, c.conditions, c.raw, c.is_and))

Select == CanCall /\ Called(Crud_select(store, O.builder, <<FieldA>>))

Limit == CanCall /\ Called(Crud_limit_call(store, O.builder, 1))

Offset == CanCall /\ Called(Crud_offset_call(store, O.builder, 1))

OrderBy ==
    /\ CanCall
    /\ \E c \in OrderByCalls : Called(Crud_order_by_call(store, O.builder, c.f, c.asc))

ForUpdate == CanCall /\ Called(Crud_for_update(store, O.builder))

ForShare == CanCall /\ Called(Crud_for_share(store, O.builder))

UseIndex == CanCall /\ Called(Crud_use_index(store, O.builder, <<"a_idx">>, ""))

IgnoreIndex == CanCall /\ Called(Crud_ignore_index(store, O.builder, <<"a_idx">>, "ORDER BY"))

ForceIndex == CanCall /\ Called(Crud_force_index(store, O.builder, <<"a_idx">>, "JOIN"))

\* the compilation r of statement op (with data, for an update) is over
Compiled(op, self, t, data, r) ==
    /\ result' = [op |-> op, self |-> self, type |-> t, data |-> data,
                  raised |-> r.raised, sql |-> r.sql]
    /\ store' = r.st
    /\ UNCHANGED <<ncalls, mvars>>

ToSelectSql ==
    /\ result = Null
    /\ \E t \in DatabaseType, count \in BOOLEAN :
          Compiled(IF count THEN "count" ELSE "select", O.builder, t, <<>>,
                   Crud_to_select_sql(store, O.builder, count, t, <<>>, <<>>, {O.builder}))

ToDeleteSql ==
    /\ result = Null
    /\ \E t \in DatabaseType :
          Compiled("delete", O.builder, t, <<>>,
                   Crud_to_delete_sql(store, O.builder, t, {O.builder}))

ToUpdateSql ==
    /\ result = Null
    /\ \E t \in DatabaseType, data \in UpdateData :
          Compiled("update", O.builder, t, data,
                   Crud_to_update_sql(store, O.builder, data, t, {O.builder}))

NextCrud ==
    \/ Where \/ Select \/ Limit \/ Offset \/ OrderBy \/ ForUpdate \/ ForShare
    \/ UseIndex \/ IgnoreIndex \/ ForceIndex
    \/ ToSelectSql \/ ToDeleteSql \/ ToUpdateSql

SpecCrud == InitCrud /\ [][NextCrud]_vars

\* the rows, update fields and conflict targets the insert program passes
InsertData ==
    {<<<<[k |-> "a", v |-> PyInt(1)]>>>>,
     <<<<[k |-> "a", v |-> PyInt(1)], [k |-> "b", v |-> PyBool(TRUE)]>>>>,
     <<<<[k |-> "a", v |-> PyInt(1)], [k |-> "b", v |-> PyBool(TRUE)]>>,
       <<[k |-> "a", v |-> PyInt(1)], [k |-> "b", v |-> PyBool(FALSE)]>>>>,
     <<<<[k |-> "id", v |-> PyInt(1)], [k |-> "a", v |-> PyInt(2)]>>,
       <<[k |-> "id", v |-> PyInt(2)], [k |-> "a", v |-> PyInt(2)]>>>>}

UpdateFields == {<<>>, <<"a">>, <<"b">>, <<"a", "b">>}

ConflictTargets == {<<>>, <<"id">>, <<"a", "b">>}

InitInsert ==
    /\ NoMigration
    /\ \E d \in InsertData, u \in UpdateFields, c \in ConflictTargets :
          store = NewInsert(EmptyStore, ModelSchema, d, u, c)
    /\ ncalls = 0
    /\ result = Null

\* insert.to_sql(type)
InsertToSql ==
    /\ result = Null
    /\ \E t \in DatabaseType :
          Compiled("insert", 1, t, <<>>, Insert_to_sql(store, 1, t))

NextInsert == InsertToSql

SpecInsert == InitInsert /\ [][NextInsert]_vars

(***************************************************************************)
(* The bulk update run: a program builds one CaseUpdate from rows of the   *)
(* model, compiles it, and the database executes the statement on the      *)
(* model's table.                                                          *)
(***************************************************************************)
\* the most rows one CaseUpdate is given
MaxRows == 2

\* the primary keys of the rows in the table, and those the program names
TableKeys == 1..3
SuppliedKeys == 1..2

\* the table before the update: no cell is NULL
InitialRows == [pk \in TableKeys |-> [a |-> PyInt(pk), b |-> PyInt(1)]]

\* the rows a program may pass: a primary key and a non-empty choice of the
\* other columns, the key first or last; a row without its key; a row with
\* a key that is no field
CaseUpdateItems ==
    {<<[k |-> "a", v |-> PyInt(11)]>>, <<[k |-> "a", v |-> PyInt(12)]>>,
     <<[k |-> "b", v |-> PyBool(FALSE)]>>,
     <<[k |-> "a", v |-> PyInt(11)], [k |-> "b", v |-> PyBool(FALSE)]>>,
     <<[k |-> "b", v |-> PyBool(FALSE)], [k |-> "a", v |-> PyInt(12)]>>}

CaseUpdateRows ==
    {<<[k |-> "id", v |-> PyInt(pk)]>> \o items :
         pk \in SuppliedKeys, items \in CaseUpdateItems}
    \cup {Append(items, [k |-> "id", v |-> PyInt(pk)]) :
             pk \in SuppliedKeys, items \in CaseUpdateItems}
    \cup {<<[k |-> "a", v |-> PyInt(11)]>>,
          <<[k |-> "id", v |-> PyInt(1)], [k |-> "zz", v |-> PyInt(11)]>>}

CaseUpdateData ==
    UNION {[1..n -> CaseUpdateRows] : n \in 1..MaxRows}

InitCaseUpdate ==
    /\ A = Null /\ B = Null /\ type = MYSQL /\ pc = "built"
    /\ M = Null /\ M2 = Null /\ Minv = Null /\ out = Null
    /\ db = NoTable /\ eq = "not compared"
    /\ Av = Null /\ Bv = Null
    /\ rows = InitialRows
    /\ procs = NoProcs
    /\ \E d \in CaseUpdateData : store = NewCaseUpdate(EmptyStore, ModelSchema, d)
    /\ ncalls = 0
    /\ result = Null

\* case_update.to_sql(type)
CaseUpdateToSql ==
    /\ result = Null
    /\ \E t \in DatabaseType :
          Compiled("case update", 1, t, <<>>, CaseUpdate_to_sql(store, 1, t))

\* the values bound to the placeholders of the statement object self compiled
BoundValues(st, self) == st.dicts[st.heap[self].vars]

\* the positions of the CASE expressions of an UPDATE text; each follows the
\* quoted column it is assigned to and "="
CasePositions(sql) == {i \in DOMAIN sql : sql[i] = Kw("CASE")}

\* the END that closes the CASE at position c
CaseEnd(sql, c) ==
    CHOOSE e \in DOMAIN sql :
        /\ e > c /\ sql[e] = Kw("END")
        /\ \A j \in (c + 1)..(e - 1) : sql[j] # Kw("END")

\* the value of the CASE at position c for the row with primary key pk:
\* the THEN of the first WHEN "key = :name" that holds, else the ELSE
CaseValue(sql, c, values, pk) ==
    LET e == CaseEnd(sql, c)
        holds == {i \in c..e : /\ sql[i] = Kw("WHEN")
                                /\ sql[i + 2] = Kw("=")
                                /\ values[sql[i + 3].name] = PyInt(pk)}
        else == CHOOSE i \in c..e : sql[i] = Kw("ELSE")
    IN  IF holds # {}
        THEN values[sql[(CHOOSE i \in holds : \A j \in holds : i <= j) + 5].name]
        ELSE values[sql[else + 1].name]

\* the primary keys the WHERE key IN (...) of an UPDATE text selects
SelectedKeys(sql, values) ==
    LET w == CHOOSE i \in DOMAIN sql : sql[i] = Kw("WHERE")
    IN  {pk \in TableKeys :
            \E i \in (w + 1)..Len(sql) :
                sql[i].k = "ph" /\ values[sql[i].name] = PyInt(pk)}

\* the table after the database ran the UPDATE text sql with the bound
\* values: every selected row gets, in each assigned column, the value of
\* the column's CASE
Updated(table, sql, values) ==
    [pk \in DOMAIN table |->
        IF pk \notin SelectedKeys(sql, values) THEN table[pk]
        ELSE [col \in DOMAIN table[pk] |->
                 LET cs == {c \in CasePositions(sql) : Unquote(sql[c - 2].q) = col}
                 IN  IF cs = {} THEN table[pk][col]
                     ELSE CaseValue(sql, CHOOSE c \in cs : TRUE, values, pk)]]

\* database.execute(sql, values) of the compiled statement
ExecuteCaseUpdate ==
    /\ pc = "built"
    /\ result # Null /\ result.raised = NoException
    /\ rows' = Updated(rows, result.sql, BoundValues(store, result.self))
    /\ pc' = "executed"
    /\ UNCHANGED <<A, B, type, M, M2, Minv, out, db, eq, Av, Bv, procs>>
    /\ UNCHANGED bvars

NextCaseUpdate == CaseUpdateToSql \/ ExecuteCaseUpdate

SpecCaseUpdate == InitCaseUpdate /\ [][NextCaseUpdate]_vars

(***************************************************************************)
(* The arithmetic run: a program builds an expression on field a by        *)
(* chaining arithmetic operators, with literals or with the parenthesized  *)
(* sub-expression sub as operands, and compiles it.                        *)
(***************************************************************************)
\* the most operators chained on the expression after its first
MaxOps == 2

\* SQLExpression.Operator.ADD, SUB, MUL
ArithmeticOperators == {"+", "-", "*"}

\* the literal operands
Literals == {2, 3}

\* the expression objects of the program, by identity
E == [root |-> 1, sub |-> 2]

InitArith ==
    /\ NoMigration
    /\ \E op1, op2 \in ArithmeticOperators, n \in Literals :
          store = Field_op(Field_op(EmptyStore, FieldA, op1, Lit(PyInt(n))),
                           FieldA, op2, Lit(PyInt(2)))
    /\ ncalls = 0
    /\ result = Null

CanChain == result = Null /\ ncalls < MaxOps

\* root = root op n
ChainLiteral ==
    /\ CanChain
    /\ \E op \in ArithmeticOperators, n \in Literals :
          Called(SQLExpression_op(store, E.root, op, Lit(PyInt(n))))

\* root = root op (sub)
ChainExpression ==
    /\ CanChain
    /\ \E op \in ArithmeticOperators :
          Called(SQLExpression_op(store, E.root, op, Obj(E.sub)))

\* root.to_sql(type)
ExpressionToSql ==
    /\ result = Null
    /\ \E t \in DatabaseType :
          Compiled("expression", E.root, t, <<>>,
                   SQLMarker_to_sql(store, E.root, t, {}))

NextArith == ChainLiteral \/ ChainExpression \/ ExpressionToSql

SpecArith == InitArith /\ [][NextArith]_vars

(***************************************************************************)
(* The two-builder run: two threads each compile a builder of their own;   *)
(* the builders share no expression.  A thread's compilation is followed   *)
(* through the steps that touch a counter or a value map: the sync of the  *)
(* builder's condition and, for each literal of it, the steps of mark.     *)
(***************************************************************************)
\* the most literals in the condition of one builder
MaxLiterals == 2

\* the threads; thread p compiles builder p, whose condition is object p + 2
Threads == {1, 2}
ConditionOf(p) == p + 2

\* the literals the condition of thread p's builder may hold
LiteralsOf(p) ==
    UNION {[1..n -> {PyInt(10 * p + 1), PyInt(10 * p + 2)}] : n \in 1..MaxLiterals}

\* a = l1 + l2 + ...: the expression, made by st's next object
RECURSIVE ChainOf(_, _, _)
ChainOf(st, lits, i) ==
    IF i > Len(lits) THEN st
    ELSE ChainOf(IF i = 1 THEN Field_op(st, FieldA, "=", Lit(lits[1]))
                 ELSE SQLExpression_op(st, Len(st.heap), "+", Lit(lits[i])),
                 lits, i + 1)

\* two builders, the condition of each, and where(condition) on each
TwoBuilders(l1, l2) ==
    Crud_where(
        Crud_where(
            ChainOf(ChainOf(NewCrud(NewCrud(EmptyStore, ModelSchema), ModelSchema), l1, 1),
                    l2, 1),
            1, <<ConditionOf(1)>>, "", TRUE),
        2, <<ConditionOf(2)>>, "", TRUE)

InitIsolation ==
    /\ A = Null /\ B = Null /\ type = MYSQL /\ pc = "no migration"
    /\ M = Null /\ M2 = Null /\ Minv = Null /\ out = Null
    /\ db = NoTable /\ eq = "not compared"
    /\ Av = Null /\ Bv = Null
    /\ rows = NoRows
    /\ procs = [p \in Threads |-> [pc |-> "sync", i |-> 1, v |-> 0, names |-> <<>>]]
    /\ \E l1 \in LiteralsOf(1), l2 \in LiteralsOf(2) : store = TwoBuilders(l1, l2)
    /\ ncalls = 0
    /\ result = Null

\* thread p moves to position to with the locals changed as in locals
Step(p, st, locals) ==
    /\ store' = st
    /\ procs' = [procs EXCEPT ![p] = locals]
    /\ UNCHANGED <<A, B, type, pc, M, M2, Minv, out, db, eq, Av, Bv, rows, ncalls, result>>

\* self._where.sync(self), in to_select_sql of builder p
SyncCondition(p) ==
    /\ procs[p].pc = "sync"
    /\ Step(p, SQLMarker_sync(store, ConditionOf(p), p), [procs[p] EXCEPT !.pc = "get"])

\* v = self.value, in get_add
GetValue(p) ==
    /\ procs[p].pc = "get"
    /\ Step(p, store, [procs[p] EXCEPT !.pc = "add", !.v = ID_value(store, ConditionOf(p))])

\* self.value += 1; return v
AddValue(p) ==
    /\ procs[p].pc = "add"
    /\ Step(p, ID_add(store, ConditionOf(p)), [procs[p] EXCEPT !.pc = "store"])

\* self._vars[k] = value; return k: the literal is marked, the next follows
StoreValue(p) ==
    /\ procs[p].pc = "store"
    /\ LET values == store.heap[ConditionOf(p)].values
           i == procs[p].i
       IN  Step(p,
                Mark_store(store, ConditionOf(p), VarName(procs[p].v),
                           Field_to_database(store.heap[ConditionOf(p)].field,
                                             ValueOf(values[i].value))),
                [procs[p] EXCEPT !.pc = IF i = Len(values) THEN "done" ELSE "get",
                                 !.i = i + 1,
                                 !.names = Append(@, VarName(procs[p].v))])

NextIsolation ==
    \E p \in Threads : SyncCondition(p) \/ GetValue(p) \/ AddValue(p) \/ StoreValue(p)

SpecIsolation == InitIsolation /\ [][NextIsolation]_vars

(***************************************************************************)
(* The repeated compilation: a program builds one query and calls          *)
(* to_select_sql on it twice with the same arguments.                      *)
(***************************************************************************)
\* the fields argument of to_select_sql
FieldsArguments == {<<>>, <<FieldA>>}

\* the first to_select_sql(count, type, fields)
ToSelectSqlFirst ==
    /\ result = Null
    /\ \E t \in DatabaseType, count \in BOOLEAN, fields \in FieldsArguments :
          Compiled(IF count THEN "count" ELSE "select", O.builder, t, fields,
                   Crud_to_select_sql(store, O.builder, count, t, fields, <<>>, {O.builder}))

\* the second to_select_sql, with the arguments of the first; the program
\* keeps what the first returned and the value map it left
ToSelectSqlSecond ==
    /\ result # Null /\ result.raised = NoException
    /\ procs = NoProcs
    /\ procs' = [first |-> result.sql, vars |-> BoundValues(store, O.builder)]
    /\ LET r == Crud_to_select_sql(store, O.builder, result.op = "count", result.type,
                                   result.data, <<>>, {O.builder})
       IN  /\ result' = [result EXCEPT !.raised = r.raised, !.sql = r.sql]
           /\ store' = r.st
    /\ UNCHANGED <<A, B, type, pc, M, M2, Minv, out, db, eq, Av, Bv, rows, ncalls>>

NextRepeat == Where \/ Select \/ Limit \/ ToSelectSqlFirst \/ ToSelectSqlSecond

SpecRepeat == InitCrud /\ [][NextRepeat]_vars

(***************************************************************************)
(* The update run: a program calls update() on an instance of a model      *)
(* whose fields may be stored under another name than the model gives      *)
(* them.                                                                   *)
(***************************************************************************)
\* the declarations of the model's fields a and b: stored under the model's
\* name, or under a name of their own
DeclaredA == {FieldA, Field("IntField", "a_col", "a", S_int, PyInt(0), FALSE, FALSE, TRUE, "")}
DeclaredB == {FieldB,
              Field("BoolField", "b_col", "b", S_tinyint, PyBool(FALSE), FALSE, FALSE, TRUE, "")}

\* the instances: the values of the attributes, by model name
Instances ==
    [{"id", "a", "b"} -> {PyInt(0), PyInt(1), PyInt(2)}]

InitUpdate ==
    /\ A = Null /\ B = Null /\ type = MYSQL /\ pc = "no migration"
    /\ M = Null /\ M2 = Null /\ Minv = Null /\ out = Null
    /\ db = NoTable /\ eq = "not compared"
    /\ Av = Null /\ Bv = Null
    /\ rows = NoRows
    /\ \E fa \in DeclaredA, fb \in DeclaredB, self \in Instances,
          fields \in {<<>>, <<"a">>, <<"b">>} :
          procs = [schema |-> Schema("t", <<IdField, fa, fb>>, <<>>), self |-> self,
                   fields |-> [i \in DOMAIN fields |->
                                  IF fields[i] = "a" THEN fa ELSE fb]]
    /\ store = EmptyStore
    /\ ncalls = 0
    /\ result = Null

\* self.update(fields=fields), up to the compilation of the statement
ModelUpdate ==
    /\ result = Null
    /\ \E t \in DatabaseType :
          Compiled("update", 1, t, Model_dump(procs.schema, procs.self, procs.fields),
                   Model_update(store, procs.schema, procs.self, procs.fields, t))

NextUpdate == ModelUpdate

SpecUpdate == InitUpdate /\ [][NextUpdate]_vars

(***************************************************************************)
(* The save run: a program calls save() on an instance; the call is        *)
(* followed from await to await, and every validate(), every executed      *)
(* statement and every after_ hook is logged.                              *)
(***************************************************************************)
\* the instances save() is called on: without or with a primary value, with
\* or without a value for the fields that have no default
SavedInstances ==
    [{"id", "a", "b"} -> {PyInt(0), PyInt(1), NoDefault}]

\* Model.validate: raises when a field holds NoDefault (no field of the
\* model has choices)
Model_validate(schema, self) ==
    IF \E i \in DOMAIN schema.fields : self[schema.fields[i].model_name] = NoDefault
    THEN "ValidateException"
    ELSE NoException

\* validate=False, as save() passes it to update() and create()
InnerValidate_on == TRUE
InnerValidate == FALSE

InitSave ==
    /\ A = Null /\ B = Null /\ type = MYSQL /\ pc = "no migration"
    /\ M = Null /\ M2 = Null /\ Minv = Null /\ out = Null
    /\ db = NoTable /\ eq = "not compared"
    /\ Av = Null /\ Bv = Null
    /\ rows = NoRows
    /\ \E self \in SavedInstances, force_insert \in BOOLEAN, validate \in BOOLEAN :
          procs = [pc |-> "before_save", self |-> self, force_insert |-> force_insert,
                   validate |-> validate, log |-> <<>>, raised |-> NoException]
    /\ NoBuilders

\* the call goes on as in next
Goes(next) ==
    /\ procs' = next
    /\ UNCHANGED <<A, B, type, pc, M, M2, Minv, out, db, eq, Av, Bv, rows>>
    /\ UNCHANGED bvars

\* a before_ hook called with validate at position at; the call continues
\* at position then
Before(at, validate, then) ==
    /\ procs.pc = at
    /\ IF ~validate THEN Goes([procs EXCEPT !.pc = then])
       ELSE IF Model_validate(ModelSchema, procs.self) # NoException
       THEN Goes([procs EXCEPT !.pc = "raised", !.log = Append(@, "validate"),
                               !.raised = Model_validate(ModelSchema, procs.self)])
       ELSE Goes([procs EXCEPT !.pc = then, !.log = Append(@, "validate")])

\* await self.before_save(validate=validate)
BeforeSave == Before("before_save", procs.validate, "branch")

\* if self.primary and not force_insert: update(..., validate=False), up to
\* its before_update; else create(..., validate=False), up to its
\* before_create
Branch ==
    /\ procs.pc = "branch"
    /\ IF Truthy(Lit(Model_primary(ModelSchema, procs.self))) /\ ~procs.force_insert
       THEN Goes([procs EXCEPT !.pc = "before_update"])
       ELSE Goes([procs EXCEPT !.pc = "before_create"])

BeforeUpdate == Before("before_update", InnerValidate, "update")

BeforeCreate == Before("before_create", InnerValidate, "insert")

\* the UPDATE is executed
ExecuteUpdate ==
    /\ procs.pc = "update"
    /\ Goes([procs EXCEPT !.pc = "after_update", !.log = Append(@, "UPDATE")])

\* the INSERT is executed, and the instance takes the id of the new row
ExecuteInsert ==
    /\ procs.pc = "insert"
    /\ Goes([procs EXCEPT !.pc = "after_create", !.log = Append(@, "INSERT"),
                          !.self = [@ EXCEPT !["id"] = PyInt(2)]])

AfterUpdate ==
    /\ procs.pc = "after_update"
    /\ Goes([procs EXCEPT !.pc = "after_save", !.log = Append(@, "after_update")])

AfterCreate ==
    /\ procs.pc = "after_create"
    /\ Goes([procs EXCEPT !.pc = "after_save", !.log = Append(@, "after_create")])

AfterSave ==
    /\ procs.pc = "after_save"
    /\ Goes([procs EXCEPT !.pc = "returned", !.log = Append(@, "after_save")])

NextSave ==
    \/ BeforeSave \/ Branch \/ BeforeUpdate \/ BeforeCreate
    \/ ExecuteUpdate \/ ExecuteInsert \/ AfterUpdate \/ AfterCreate \/ AfterSave

SpecSave == InitSave /\ [][NextSave]_vars

(***************************************************************************)
(* Model.bulk_create.  The table is rows, the ids of its rows in the       *)
(* order of insertion; the database gives procs.auto to the next row that  *)
(* comes without an id.  One multi-row INSERT stores its rows in the order *)
(* given, and reports the first generated id on MySQL (cursor.lastrowid)   *)
(* and the id of the last row on PostgreSQL (RETURNING id, data[-1][0])    *)
(* and SQLite (cursor.lastrowid).                                          *)
(***************************************************************************)
MaxInstances == 3

Reverse(s) == [i \in DOMAIN s |-> s[Len(s) + 1 - i]]

\* the instances bulk_create is called with: without or with a primary
\* value, with or without a value for a field that has no default
BulkInstances ==
    {[id |-> PyInt(p), a |-> a, b |-> PyBool(FALSE)] : p \in {0, 5}, a \in {PyInt(1), NoDefault}}

SeqsUpTo(S, n) == UNION {[1..k -> S] : k \in 1..n}

\* not ins.primary
LacksPrimary(ins) == ~Truthy(Lit(Model_primary(ModelSchema, ins)))

\* the multi-row INSERT in the database: a row without id (absent, or 0 on
\* MySQL) takes the next generated id, a row with an id that the table has
\* already is a constraint violation
RECURSIVE InsertRows(_, _, _, _)
InsertRows(dbtype, ids, table, auto) ==
    IF ids = <<>> THEN [rows |-> table, auto |-> auto, raised |-> NoException]
    ELSE IF Head(ids) = 0
    THEN InsertRows(dbtype, Tail(ids), Append(table, auto), auto + 1)
    ELSE IF \E i \in DOMAIN table : table[i] = Head(ids)
    THEN [rows |-> table, auto |-> auto, raised |-> "IntegrityError"]
    ELSE InsertRows(dbtype, Tail(ids), Append(table, Head(ids)),
                    IF dbtype # POSTGRES /\ Head(ids) >= auto THEN Head(ids) + 1 ELSE auto)

\* the id Insert.exec() returns as last_id
Reported(dbtype, ids, table, auto) ==
    LET generated == {i \in DOMAIN ids : ids[i] = 0}
        done == InsertRows(dbtype, ids, table, auto)
    IN  IF dbtype = MYSQL
        THEN IF generated = {} THEN 0
             ELSE done.rows[Len(table) + CHOOSE i \in generated : \A j \in generated : i <= j]
        ELSE done.rows[Len(done.rows)]

\* for ins in instances: if not ins.primary: setattr(ins, primary, next_ins_id);
\* next_ins_id = ins.primary + step
RECURSIVE SetPrimaries(_, _, _)
SetPrimaries(instances, next_ins_id, step) ==
    IF instances = <<>> THEN <<>>
    ELSE LET name == primary_field(ModelSchema).model_name
             ins == IF LacksPrimary(Head(instances))
                    THEN [Head(instances) EXCEPT ![name] = PyInt(next_ins_id)]
                    ELSE Head(instances)
         IN  <<ins>> \o SetPrimaries(Tail(instances), ins[name].v + step, step)

\* the two loops of bulk_create that give the instances their ids
AssignPrimaries_forward(dbtype, instances, next_ins_id) ==
    SetPrimaries(instances, next_ins_id, 1)

AssignPrimaries(dbtype, instances, next_ins_id) ==
    IF dbtype = MYSQL
    THEN SetPrimaries(instances, next_ins_id, 1)
    ELSE Reverse(SetPrimaries(Reverse(instances), next_ins_id, -1))

InitBulk ==
    /\ A = Null /\ B = Null /\ pc = "no migration"
    /\ M = Null /\ M2 = Null /\ Minv = Null /\ out = Null
    /\ db = NoTable /\ eq = "not compared"
    /\ Av = Null /\ Bv = Null
    /\ type \in {MYSQL, POSTGRES, SQLITE}
    /\ rows = NoRows
    /\ \E instances \in SeqsUpTo(BulkInstances, MaxInstances), auto \in {1, 6},
          validate \in BOOLEAN :
          procs = [pc |-> "before_create", instances |-> instances, given |-> instances,
                   validate |-> validate, auto |-> auto, first |-> auto,
                   last_id |-> 0, raised |-> NoException]
    /\ NoBuilders

BulkGoes(next, table) ==
    /\ procs' = next
    /\ rows' = table
    /\ UNCHANGED <<A, B, type, pc, M, M2, Minv, out, db, eq, Av, Bv>>
    /\ UNCHANGED bvars

\* for ins in instances: await ins.before_create(validate=validate)
BulkBeforeCreate ==
    /\ procs.pc = "before_create"
    /\ IF procs.validate /\ \E i \in DOMAIN procs.instances :
                               Model_validate(ModelSchema, procs.instances[i]) # NoException
       THEN BulkGoes([procs EXCEPT !.pc = "raised", !.raised = "ValidateException"], rows)
       ELSE BulkGoes([procs EXCEPT !.pc = "insert"], rows)

\* data = [ins.dump(...)], the primary key popped where it is falsy and the
\* check of the lengths for SQLite and PostgreSQL, then Insert(...).exec()
BulkInsert ==
    /\ procs.pc = "insert"
    /\ LET ids == [i \in DOMAIN procs.instances |->
                      Model_primary(ModelSchema, procs.instances[i]).v]
           done == InsertRows(type, ids, rows, procs.auto)
       IN  IF type # MYSQL /\ Cardinality({ids[i] = 0 : i \in DOMAIN ids}) # 1
           THEN BulkGoes([procs EXCEPT !.pc = "raised", !.raised = "OperationException"], rows)
           ELSE IF done.raised # NoException
           THEN BulkGoes([procs EXCEPT !.pc = "raised", !.raised = done.raised], rows)
           ELSE BulkGoes([procs EXCEPT !.pc = "assign", !.auto = done.auto,
                                       !.last_id = Reported(type, ids, rows, procs.auto)],
                         done.rows)

\* the loop over the instances, then after_create for each of them
BulkAssign ==
    /\ procs.pc = "assign"
    /\ BulkGoes([procs EXCEPT !.pc = "returned",
                              !.instances = AssignPrimaries(type, @, procs.last_id)],
                rows)

NextBulk == BulkBeforeCreate \/ BulkInsert \/ BulkAssign

SpecBulk == InitBulk /\ [][NextBulk]_vars

(***************************************************************************)
(* dataclass.Meta and BaseData.__init__.  __fields__ is the dict of the    *)
(* class's fields in its order, a sequence of [name, default]; a class     *)
(* statement is its bases, its __annotations__ (the names in order) and    *)
(* the attributes of its body (namespace).  Every value is an int and      *)
(* every field is annotated int, so that the type check passes.            *)
(***************************************************************************)
MaxArgs == 2

\* dict.update on dicts kept as sequences: a key d has keeps its place and
\* takes the new value, the other keys follow in e's order
DictUpdate(d, e) ==
    [i \in DOMAIN d |->
        IF d[i].name \in Names(e)
        THEN e[CHOOSE j \in DOMAIN e : e[j].name = d[i].name]
        ELSE d[i]]
    \o SelectSeq(e, LAMBDA f : f.name \notin Names(d))

RECURSIVE BaseFields(_)
\* for base in __bases: fields.update(getattr(base, "__fields__", {}))
BaseFields(bases) ==
    IF bases = <<>> THEN <<>>
    ELSE DictUpdate(BaseFields(SubSeq(bases, 1, Len(bases) - 1)), bases[Len(bases)])

\* Meta.__new__: the __fields__ of the new class
Meta_new(bases, annotations, namespace) ==
    LET default == IF "n" \in DOMAIN namespace THEN namespace["n"] ELSE NoDefault
        current_fields == [i \in DOMAIN annotations |->
                              [name |-> annotations[i], default |-> default]]
        fields == DictUpdate(BaseFields(bases), current_fields)
    IN  [i \in DOMAIN fields |->
            IF fields[i].name \in DOMAIN namespace
            THEN [fields[i] EXCEPT !.default = namespace[fields[i].name]]
            ELSE fields[i]]

\* BaseData.__init__, up to the data it sets as attributes
BaseData_init(fields, args, kwargs) ==
    IF Len(args) + Cardinality(DOMAIN kwargs) > Len(fields)
    THEN [data |-> <<>>, raised |-> "TypeError"]
    ELSE LET given == {fields[i].name : i \in 1..Len(args)}
             kw_fields == {fields[i].name : i \in (Len(args) + 1)..Len(fields)}
             filled == given \cup DOMAIN kwargs
         IN  IF \E n \in DOMAIN kwargs : n \in given \/ n \notin kw_fields
             THEN [data |-> <<>>, raised |-> "TypeError"]
             ELSE IF \E i \in DOMAIN fields :
                        fields[i].name \notin filled /\ fields[i].default = NoDefault
             THEN [data |-> <<>>, raised |-> "TypeError"]
             ELSE [data |-> [n \in Names(fields) |->
                               LET i == CHOOSE j \in DOMAIN fields : fields[j].name = n
                               IN  IF i <= Len(args) THEN args[i]
                                   ELSE IF n \in DOMAIN kwargs THEN kwargs[n]
                                   ELSE fields[i].default],
                   raised |-> NoException]

\* partial functions from the names of S to the values of V
Dicts(S, values) == UNION {[D -> values] : D \in SUBSET S}

\* sequences without repetition over S
Annotations(S) ==
    {s \in UNION {[1..k -> S] : k \in 0..Cardinality(S)} :
        \A i, j \in DOMAIN s : s[i] = s[j] => i = j}

\* the class statements: class X(BaseData) or class X(Base), Base a class
\* with one field b with or without default, declaring fields among a and n
\* and attributes a and n
ClassStatements ==
    [bases : {<<>>, << <<[name |-> "b", default |-> NoDefault]>> >>,
                    << <<[name |-> "b", default |-> PyInt(1)]>> >>},
     annotations : Annotations({"a", "n"}),
     namespace : Dicts({"a", "n"}, {PyInt(7)})]

InitData ==
    /\ A = Null /\ B = Null /\ type = MYSQL /\ pc = "no migration"
    /\ M = Null /\ M2 = Null /\ Minv = Null /\ out = Null
    /\ db = NoTable /\ eq = "not compared"
    /\ Av = Null /\ Bv = Null
    /\ rows = NoRows
    /\ \E cls \in ClassStatements,
          args \in UNION {[1..k -> {PyInt(10), PyInt(20)}] : k \in 0..MaxArgs},
          kwargs \in Dicts({"a", "b", "n", "z"}, {PyInt(30)}) :
          procs = [pc |-> "statement", cls |-> cls, args |-> args, kwargs |-> kwargs,
                   fields |-> <<>>, data |-> <<>>, raised |-> NoException]
    /\ NoBuilders

\* the class statement is executed
ClassStatement ==
    /\ procs.pc = "statement"
    /\ procs' = [procs EXCEPT !.pc = "class",
                    !.fields = Meta_new(procs.cls.bases, procs.cls.annotations,
                                        procs.cls.namespace)]
    /\ UNCHANGED <<A, B, type, pc, M, M2, Minv, out, db, eq, Av, Bv, rows>>
    /\ UNCHANGED bvars

\* X(*args, **kwargs)
Construct ==
    /\ procs.pc = "class"
    /\ LET r == BaseData_init(procs.fields, procs.args, procs.kwargs)
       IN  procs' = [procs EXCEPT !.pc = "constructed", !.data = r.data,
                                  !.raised = r.raised]
    /\ UNCHANGED <<A, B, type, pc, M, M2, Minv, out, db, eq, Av, Bv, rows>>
    /\ UNCHANGED bvars

NextData == ClassStatement \/ Construct

SpecData == InitData /\ [][NextData]_vars

(***************************************************************************)
(* Model.get_or_create called by several tasks at once.  The table is      *)
(* rows.table, with a unique constraint on the key field user_id; every    *)
(* statement is executed by the database at once, the tasks interleave     *)
(* between their statements (the awaits of get_or_create).  The calls run  *)
(* outside a transaction, the instances are valid and have no primary      *)
(* value.                                                                  *)
(***************************************************************************)
MaxCallers == 3

Callers == 1..MaxCallers

\* except exception.IntegrityError: fetch again
OnIntegrityError_raise == "raise"
OnIntegrityError == "refetch"

\* where(*conditions).fetch_one(): the row with the key, or None
FetchOne(table, key) ==
    IF \E i \in DOMAIN table : table[i].user_id = key
    THEN table[CHOOSE i \in DOMAIN table : table[i].user_id = key]
    ELSE PyNone

InitGetOrCreate ==
    /\ A = Null /\ B = Null /\ type = MYSQL /\ pc = "no migration"
    /\ M = Null /\ M2 = Null /\ Minv = Null /\ out = Null
    /\ db = NoTable /\ eq = "not compared"
    /\ Av = Null /\ Bv = Null
    /\ \E table \in {<<>>, <<[id |-> 1, user_id |-> 1, level |-> 0]>>} :
          rows = [table |-> table, before |-> table, auto |-> Len(table) + 1]
    /\ \E keys \in [Callers -> {1, 2}] :
          procs = [p \in Callers |->
                      [pc |-> "fetch",
                       self |-> [id |-> 0, user_id |-> keys[p], level |-> 10 * p],
                       ins |-> PyNone, created |-> FALSE, raised |-> NoException]]
    /\ NoBuilders

CallerGoes(p, locals, table) ==
    /\ procs' = [procs EXCEPT ![p] = locals]
    /\ rows' = table
    /\ UNCHANGED <<A, B, type, pc, M, M2, Minv, out, db, eq, Av, Bv>>
    /\ UNCHANGED bvars

\* ins = await where.fetch_one(); if not ins: ...
Fetch(p) ==
    /\ procs[p].pc = "fetch"
    /\ LET ins == FetchOne(rows.table, procs[p].self.user_id)
       IN  CallerGoes(p, [procs[p] EXCEPT !.ins = ins,
                             !.pc = IF ins = PyNone THEN "create" ELSE "returned"],
                      rows)

\* ins = await self.create(...); created = True, or IntegrityError from the
\* unique constraint
Create(p) ==
    /\ procs[p].pc = "create"
    /\ IF FetchOne(rows.table, procs[p].self.user_id) # PyNone
       THEN IF OnIntegrityError = "refetch"
            THEN CallerGoes(p, [procs[p] EXCEPT !.pc = "refetch"],
                            [rows EXCEPT !.auto = @ + 1])
            ELSE CallerGoes(p, [procs[p] EXCEPT !.pc = "raised",
                                                !.raised = "IntegrityError"],
                            [rows EXCEPT !.auto = @ + 1])
       ELSE LET self == [procs[p].self EXCEPT !.id = rows.auto]
            IN  CallerGoes(p, [procs[p] EXCEPT !.pc = "returned", !.self = self,
                                               !.ins = self, !.created = TRUE],
                           [rows EXCEPT !.table = Append(@, self), !.auto = @ + 1])

\* ins = await where.fetch_one(); if not ins: raise e
Refetch(p) ==
    /\ procs[p].pc = "refetch"
    /\ LET ins == FetchOne(rows.table, procs[p].self.user_id)
       IN  IF ins = PyNone
           THEN CallerGoes(p, [procs[p] EXCEPT !.pc = "raised",
                                               !.raised = "IntegrityError"], rows)
           ELSE CallerGoes(p, [procs[p] EXCEPT !.ins = ins, !.pc = "returned"], rows)

NextGetOrCreate == \E p \in Callers : Fetch(p) \/ Create(p) \/ Refetch(p)

SpecGetOrCreate == InitGetOrCreate /\ [][NextGetOrCreate]_vars

(***************************************************************************)
(* Claims about the SQL builders.                                          *)
(***************************************************************************)
\* a Crud statement has been compiled and nothing was raised
CrudCompiled ==
    /\ result # Null
    /\ result.op \in {"select", "count", "delete", "update"}
    /\ result.raised = NoException

\* the placeholder names of a text, in order of appearance
Placeholders(sql) ==
    LET phs == SelectSeq(sql, LAMBDA t : t.k = "ph")
    IN  [i \in DOMAIN phs |-> phs[i].name]

RECURSIVE OperandLiterals(_, _, _, _)
RECURSIVE MarkerLiterals(_, _, _)
RECURSIVE StatementLiterals(_, _, _, _, _)

\* the literal operand occurrences below one operand, in reading order, each
\* as the value the database is to receive for it; a Field is no literal
OperandLiterals(heap, operand, field, path) ==
    IF operand.t = "field" THEN <<>>
    ELSE IF operand.t = "obj" THEN MarkerLiterals(heap, operand.o, path)
    ELSE IF field # Null THEN <<Field_to_database(field, ValueOf(operand))>>
    ELSE <<ValueOf(operand)>>

\* the literal operand occurrences of the expression, CASE or sub-select o
MarkerLiterals(heap, o, path) ==
    LET m == heap[o]
        p == path \cup {o}
    IN  IF o \in path THEN <<>>
        ELSE IF m.cls = "SQLExpression"
        THEN Flatten([i \in DOMAIN m.values |->
                 IF m.values[i].op = "IN" /\ m.values[i].value.t = "list"
                 THEN Flatten([j \in DOMAIN m.values[i].value.l |->
                          OperandLiterals(heap, m.values[i].value.l[j], m.field, p)])
                 ELSE OperandLiterals(heap, m.values[i].value, m.field, p)])
        ELSE IF m.cls = "SQLCase"
        THEN Flatten([i \in DOMAIN m.cases |->
                 OperandLiterals(heap, m.cases[i].ex, m.field, p)
                 \o OperandLiterals(heap, m.cases[i].v, m.field, p)])
             \o OperandLiterals(heap, m.default, m.field, p)
        ELSE StatementLiterals(heap, o, "select", <<>>, p)

\* the literal operand occurrences of statement op of builder b
StatementLiterals(heap, b, op, data, path) ==
    LET m == heap[b]
        where == IF m.where # Null THEN MarkerLiterals(heap, m.where.o, path) ELSE <<>>
        order == Flatten([i \in DOMAIN m.order_by |->
                     OperandLiterals(heap, m.order_by[i], Null, path)])
        paging == (IF m.limit # 0 THEN <<PyInt(m.limit)>> ELSE <<>>)
                  \o (IF m.offset # 0 THEN <<PyInt(m.offset)>> ELSE <<>>)
        set == Flatten([i \in DOMAIN data |->
                   OperandLiterals(heap, data[i].v,
                                   FieldByModelName(m.schema.fields, data[i].k), path)])
    IN  IF op = "select" THEN where \o order \o paging
        ELSE IF op = "update" THEN set \o where
        ELSE where

\* the names of a text are pairwise distinct and are the keys of the map
NamesAreKeys(names, map) ==
    /\ \A i, j \in DOMAIN names : i # j => names[i] # names[j]
    /\ DOMAIN map = Range(names)

\* C5: after one statement is compiled from a builder, the placeholders of
\* its text stand one to one, in order, for the literal operand occurrences
\* of the builder tree (WHERE, ORDER BY, SET, CASE, LIMIT/OFFSET, sub-select):
\* no name appears twice, the value map has exactly these names and binds
\* each to the value of its literal, and a Field operand has no entry.
C5_ParameterUniqueness ==
    CrudCompiled =>
        LET names == Placeholders(result.sql)
            map == store.dicts[store.heap[result.self].vars]
            literals == StatementLiterals(store.heap, result.self, result.op,
                                          result.data, {result.self})
        IN  /\ NamesAreKeys(names, map)
            /\ Len(names) = Len(literals)
            /\ \A i \in DOMAIN names : map[names[i]] = literals[i]

\* the builder tree of the compiled statement has LIKE with a Field operand
RECURSIVE LikeOfField(_, _, _)
LikeOfField(heap, o, path) ==
    LET m == heap[o]
        p == path \cup {o}
        below(operand) ==
            IF operand.t = "obj" THEN LikeOfField(heap, operand.o, p)
            ELSE IF operand.t = "list"
            THEN \E j \in DOMAIN operand.l :
                    operand.l[j].t = "obj" /\ LikeOfField(heap, operand.l[j].o, p)
            ELSE FALSE
    IN  IF o \in path THEN FALSE
        ELSE IF m.cls = "SQLExpression"
        THEN \E i \in DOMAIN m.values :
                \/ m.values[i].op = "LIKE" /\ m.values[i].value.t # "lit"
                \/ below(m.values[i].value)
        ELSE IF m.cls = "SQLCase"
        THEN \/ \E i \in DOMAIN m.cases : below(m.cases[i].ex) \/ below(m.cases[i].v)
             \/ below(m.default)
        ELSE IF m.cls = "Crud"
        THEN \/ m.where # Null /\ below(m.where)
             \/ \E i \in DOMAIN m.order_by : below(m.order_by[i])
        ELSE FALSE

\* what C5 says holds of every statement without LIKE of a Field operand
C5_ExceptLikeOfField ==
    (CrudCompiled /\ ~LikeOfField(store.heap, result.self, {})) => C5_ParameterUniqueness

\* an operand that is a Field got a placeholder and an entry of the value map
C5_FieldOperandBound ==
    /\ CrudCompiled
    /\ \E k \in DOMAIN store.dicts[store.heap[result.self].vars] :
          LET v == store.dicts[store.heap[result.self].vars][k]
          IN  v.py = "object" /\ v.of.t = "field"

\* the number of "(" less the number of ")" before position i
ParenDepth(sql, i) ==
    Cardinality({j \in 1..(i - 1) : sql[j] = Kw("(")})
    - Cardinality({j \in 1..(i - 1) : sql[j] = Kw(")")})

\* the statement has a WHERE clause of its own
HasWhere(sql) ==
    \E i \in DOMAIN sql : sql[i] = Kw("WHERE") /\ ParenDepth(sql, i) = 0

\* C6: when where() gave the builder a restriction, as conditions or as
\* raw text, every statement compiled from it (select, COUNT(*), update,
\* delete) has a WHERE clause, and a raw restriction appears in it.
C6_SameWhere ==
    CrudCompiled =>
        LET b == store.heap[result.self]
        IN  /\ (b.where # Null \/ b.raw_where # "") => HasWhere(result.sql)
            /\ b.raw_where # "" => Raw(b.raw_where) \in Range(result.sql)

\* an update or delete compiled without WHERE from a builder restricted by
\* raw text
C6_RawDropped ==
    /\ CrudCompiled
    /\ result.op \in {"update", "delete"}
    /\ store.heap[result.self].raw_where # ""
    /\ ~HasWhere(result.sql)

\* what C6 says holds when the restriction is given as conditions only
C6_ConditionsCarried ==
    (CrudCompiled /\ store.heap[result.self].where # Null) => HasWhere(result.sql)

\* the upsert clause of an INSERT text: from ON ... up to RETURNING or ";"
UpsertClause(sql) ==
    LET starts == {i \in DOMAIN sql :
                      sql[i] \in {Kw("ON DUPLICATE KEY UPDATE"), Kw("ON CONFLICT")}}
        ends == {i \in DOMAIN sql : sql[i] \in {Kw("RETURNING"), Kw(";")}}
        first == CHOOSE i \in starts : \A j \in starts : i <= j
        last == CHOOSE i \in ends : \A j \in ends : i <= j
    IN  IF starts = {} THEN <<>> ELSE SubSeq(sql, first, last - 1)

\* "k = VALUES(k), ..." and "k = EXCLUDED.k, ..." for the update fields
ExpectedSets(update_fields, word) ==
    Join([i \in DOMAIN update_fields |->
             IF word = "VALUES"
             THEN <<Raw(update_fields[i]), Kw("="), Kw("VALUES"), Kw("("),
                    Raw(update_fields[i]), Kw(")")>>
             ELSE <<Raw(update_fields[i]), Kw("="), Kw(word), Kw("."),
                    Raw(update_fields[i])>>],
         <<Kw(",")>>)

\* "(t1,t2)"
ExpectedTargets(conflict_targets) ==
    <<Kw("(")>> \o Join([i \in DOMAIN conflict_targets |-> <<Raw(conflict_targets[i])>>],
                        <<Kw(",")>>)
               \o <<Kw(")")>>

\* C10: an Insert with update fields compiles, for MySQL without conflict
\* targets, to ON DUPLICATE KEY UPDATE k = VALUES(k) for each update field;
\* for PostgreSQL with conflict targets, to ON CONFLICT (targets) DO UPDATE
\* SET k = EXCLUDED.k; for SQLite, to ON CONFLICT with the target list only
\* when one is given (and k = excluded.k); it raises OperationException, and
\* returns no SQL, for PostgreSQL without and for MySQL with conflict targets.
C10_UpsertShape ==
    (result # Null /\ result.op = "insert"
        /\ store.heap[result.self].update_fields # <<>>) =>
        LET u == store.heap[result.self].update_fields
            c == store.heap[result.self].conflict_targets
            clause == UpsertClause(result.sql)
        IN  IF (result.type = POSTGRES /\ c = <<>>) \/ (result.type = MYSQL /\ c # <<>>)
            THEN result.raised = "OperationException" /\ result.sql = <<>>
            ELSE /\ result.raised = NoException
                 /\ result.type = MYSQL =>
                       clause = <<Kw("ON DUPLICATE KEY UPDATE")>> \o ExpectedSets(u, "VALUES")
                 /\ result.type = POSTGRES =>
                       clause = <<Kw("ON CONFLICT")>> \o ExpectedTargets(c)
                                \o <<Kw("DO UPDATE SET")>> \o ExpectedSets(u, "EXCLUDED")
                 /\ result.type = SQLITE =>
                       clause = <<Kw("ON CONFLICT")>>
                                \o (IF c # <<>> THEN ExpectedTargets(c) ELSE <<>>)
                                \o <<Kw("DO UPDATE SET")>> \o ExpectedSets(u, "excluded")

\* an upsert of two fields compiled for PostgreSQL with conflict targets
C10_Witness ==
    /\ result # Null /\ result.op = "insert"
    /\ result.type = POSTGRES /\ result.raised = NoException
    /\ Len(store.heap[result.self].update_fields) = 2
    /\ store.heap[result.self].conflict_targets # <<>>
    /\ UpsertClause(result.sql) # <<>>

\* an upsert refused: MySQL with conflict targets
C10_WitnessRaised ==
    /\ result # Null /\ result.op = "insert"
    /\ result.type = MYSQL /\ result.raised = "OperationException"
    /\ store.heap[result.self].update_fields # <<>>
    /\ store.heap[result.self].conflict_targets # <<>>

(***************************************************************************)
(* Claims about the errors of the compilers.                               *)
(***************************************************************************)
\* a migration between two present schemas with a type change was compiled
\* for SQLite
TypeChangeForSQLite ==
    /\ out # Null /\ type = SQLITE
    /\ out.of.schema # Null /\ out.of.old_schema # Null
    /\ out.of.change_type_fields # <<>>

\* C11: SQLite type change must fail. Compiling for SQLite a migration
\* between two present schemas whose change_type_fields is non-empty raises
\* OperationException and returns no statement at all, whatever other
\* operations (rename, index drops, column adds and drops) it holds.
C11_SQLiteTypeChange ==
    TypeChangeForSQLite => (out.raised = "OperationException" /\ out.sqls = <<>>)

\* C11 witness: such a migration that also renames the table, drops an
\* index and adds a column
C11_Witness ==
    /\ TypeChangeForSQLite
    /\ out.of.old_schema.name # out.of.schema.name
    /\ out.of.drop_indexes # <<>>
    /\ out.of.add_fields # <<>>

\* C11 witness: such a migration that also drops an index and a column
C11_WitnessDrop ==
    /\ TypeChangeForSQLite
    /\ out.of.drop_indexes # <<>>
    /\ out.of.drop_fields # <<>>

\* a select (not a COUNT(*)) has been compiled, with or without an exception
SelectCompiled == result # Null /\ result.op = "select"

\* the builder of the compiled statement carries an index hint
HasIndexHint(b) ==
    b.use_indexes # <<>> \/ b.ignore_indexes # <<>> \/ b.force_indexes # <<>>

\* C12: no silent downgrade in select. A select with an index hint (use,
\* ignore or force) compiled for PostgreSQL, and a select with a row-lock
\* request (for_update or for_share) compiled for SQLite, raises instead of
\* returning SQL without the feature.
C12_NoSilentDowngrade ==
    SelectCompiled =>
        LET b == store.heap[result.self]
        IN  /\ (result.type = POSTGRES /\ HasIndexHint(b))
                   => result.raised = "OperationException"
            /\ (result.type = SQLITE /\ (b.for_update \/ b.for_share))
                   => result.raised # NoException

\* a select with for_share() compiled for SQLite returned SQL without a lock
C12_ForShareDropped ==
    /\ SelectCompiled /\ result.type = SQLITE
    /\ store.heap[result.self].for_share /\ ~store.heap[result.self].for_update
    /\ result.raised = NoException
    /\ Kw("FOR SHARE") \notin Range(result.sql)
    /\ Kw("LOCK IN SHARE MODE") \notin Range(result.sql)

\* what C12 says holds of index hints on PostgreSQL and of for_update() on
\* SQLite
C12_ExceptForShare ==
    SelectCompiled =>
        LET b == store.heap[result.self]
        IN  /\ (result.type = POSTGRES /\ HasIndexHint(b))
                   => result.raised = "OperationException"
            /\ (result.type = SQLITE /\ b.for_update) => result.raised # NoException

(***************************************************************************)
(* Claims about the keys of the diff.                                      *)
(***************************************************************************)
\* indexes i and j have the same unique flag and the same field names in a
\* different order
Reordered(i, j) ==
    /\ i.unique = j.unique
    /\ i.fields # j.fields
    /\ Range(i.fields) = Range(j.fields) /\ Len(i.fields) = Len(j.fields)

\* the indexes of s that have the unique flag and the ordered fields of i
SameKey(s, i) ==
    {k \in DOMAIN s.indexes :
        s.indexes[k].unique = i.unique /\ s.indexes[k].fields = i.fields}

\* A declares index i, B holds the reordered index j, and neither schema
\* holds the other's
ReorderedPair(i, j) ==
    /\ Reordered(A.indexes[i], B.indexes[j])
    /\ SameKey(B, A.indexes[i]) = {} /\ SameKey(A, B.indexes[j]) = {}

\* C13: index field order matters. When A declares an index on (a, b) and B
\* has one with the same unique flag on (b, a), the two are distinct for the
\* diff: A - B has A's index in add_indexes and B's in drop_indexes.
C13_IndexFieldOrder ==
    M # Null =>
        \A i \in DOMAIN A.indexes, j \in DOMAIN B.indexes :
            ReorderedPair(i, j) =>
                /\ A.indexes[i] \in Range(M.add_indexes)
                /\ B.indexes[j] \in Range(M.drop_indexes)

\* C13 witness: A - B was evaluated for an A with an index on (a, b) and a B
\* with one on (b, a)
C13_Witness ==
    /\ M # Null
    /\ \E i \in DOMAIN A.indexes, j \in DOMAIN B.indexes :
          /\ ReorderedPair(i, j)
          /\ A.indexes[i].fields = <<"a", "b">> /\ B.indexes[j].fields = <<"b", "a">>

\* the names of a list of fields, in order
NameList(fields) == [k \in DOMAIN fields |-> fields[k].name]

\* the (unique, ordered field names) keys of a list of indexes
KeysOf(indexes) == {<<indexes[k].unique, indexes[k].fields>> : k \in DOMAIN indexes}

\* C14: the diff ignores non-key attributes. Two pairs of schemas that
\* differ only in field defaults, comments, nullability, primary or
\* auto-increment flags, or in the names of their indexes, give migrations
\* with the same field names in add_fields, drop_fields and
\* change_type_fields and the same (unique, ordered field names) keys in
\* add_indexes and drop_indexes; a schema diffed against such a variant of
\* itself gives five empty lists.
C14_NonKeyAttributes ==
    /\ pc = "diffed pairs" =>
          /\ NameList(M.add_fields) = NameList(M2.add_fields)
          /\ NameList(M.drop_fields) = NameList(M2.drop_fields)
          /\ NameList(M.change_type_fields) = NameList(M2.change_type_fields)
          /\ KeysOf(M.add_indexes) = KeysOf(M2.add_indexes)
          /\ KeysOf(M.drop_indexes) = KeysOf(M2.drop_indexes)
          /\ Len(M.add_indexes) = Len(M2.add_indexes)
          /\ Len(M.drop_indexes) = Len(M2.drop_indexes)
    /\ pc = "diffed variant" => NoOperations(M)

\* C14 witness: two pairs that differ in every such attribute and in their
\* index names were diffed, and the diff adds a field, changes a type and
\* adds and drops an index
C14_Witness ==
    /\ pc = "diffed pairs"
    /\ Av # A /\ Bv # B
    /\ \E k \in DOMAIN A.fields :
          /\ A.fields[k].default # Av.fields[k].default
          /\ A.fields[k].comment # Av.fields[k].comment
          /\ A.fields[k].not_null # Av.fields[k].not_null
    /\ \E k \in DOMAIN A.indexes : A.indexes[k].name # Av.indexes[k].name
    /\ M.add_fields # <<>> /\ M.change_type_fields # <<>>
    /\ M.add_indexes # <<>> /\ M.drop_indexes # <<>>

\* C14 witness: a schema was diffed against itself with another default and
\* other index names
C14_WitnessVariant ==
    /\ pc = "diffed variant"
    /\ A.indexes # <<>>
    /\ \E k \in DOMAIN A.indexes : A.indexes[k].name # Av.indexes[k].name
    /\ \E k \in DOMAIN A.fields : A.fields[k].default # Av.fields[k].default

\* what the type spellings of the model normalize to, as the claim states
\* it: case-insensitive, serial and integer are int, and an integer type
\* loses its parenthesized length
ExpectedNormalizedType(t) ==
    CASE t \in {S_int, S_INT, S_serial, S_integer, S_int10} -> "int"
      [] t \in {S_bigint, S_bigint20} -> "bigint"
      [] t = S_varchar10 -> "varchar(10)"
      [] t = S_varchar20 -> "varchar(20)"
      [] t = S_interval3 -> "interval(3)"
      [] t = S_interval6 -> "interval(6)"

\* the type of the field named n in schema s
TypeOf(s, n) == FieldsByName(s.fields)[n].type

\* the fields named n of A and B are a type change as the claim states it
ExpectedChange(n) ==
    ExpectedNormalizedType(TypeOf(A, n)) # ExpectedNormalizedType(TypeOf(B, n))

\* C15: type normalization. Two fields of the same name are reported as a
\* type change exactly when their normalized types differ (case-insensitive,
\* serial and integer are int, integer types lose a parenthesized length),
\* and A - B has x in change_type_fields if and only if B - A has.
C15_TypeNormalization ==
    pc = "diffed reverse" =>
        /\ \A n \in Names(A.fields) \cap Names(B.fields) :
              (n \in Names(M.change_type_fields)) <=> ExpectedChange(n)
        /\ Names(M.change_type_fields) \subseteq Names(A.fields) \cap Names(B.fields)
        /\ Names(M.change_type_fields) = Names(M2.change_type_fields)

\* x is interval(3) in A and interval(6) in B, and neither A - B nor B - A
\* reports a type change
C15_IntervalPrecisionDropped ==
    /\ pc = "diffed reverse"
    /\ TypeOf(A, "x") = S_interval3 /\ TypeOf(B, "x") = S_interval6
    /\ M.change_type_fields = <<>> /\ M2.change_type_fields = <<>>

\* what C15 says holds when neither type is an interval, and the diff is
\* symmetric for every type
C15_ExceptInterval ==
    pc = "diffed reverse" =>
        /\ \A n \in Names(A.fields) \cap Names(B.fields) :
              {TypeOf(A, n), TypeOf(B, n)} \cap {S_interval3, S_interval6} = {}
                  => ((n \in Names(M.change_type_fields)) <=> ExpectedChange(n))
        /\ Names(M.change_type_fields) = Names(M2.change_type_fields)

\* C15 witness: x is int(10) in A and serial in B, and is no type change
C15_Witness ==
    /\ pc = "diffed reverse"
    /\ TypeOf(A, "x") = S_int10 /\ TypeOf(B, "x") = S_serial
    /\ M.change_type_fields = <<>>

\* C15 witness: x is integer in A and bigint(20) in B, and is a type change
\* in both directions
C15_WitnessChanged ==
    /\ pc = "diffed reverse"
    /\ TypeOf(A, "x") = S_integer /\ TypeOf(B, "x") = S_bigint20
    /\ NameList(M.change_type_fields) = <<"x">>
    /\ NameList(M2.change_type_fields) = <<"x">>

(***************************************************************************)
(* Claims about the statements of a migration.                             *)
(***************************************************************************)
\* the positions of the script that add the column named n
AddColumnsOf(n) ==
    {i \in DOMAIN out.sqls :
        out.sqls[i].op = "ADD COLUMN" /\ Unquote(out.sqls[i].column.column) = n}

\* statement i of the script drops the default of the column named n
DropsDefaultOf(i, n) ==
    /\ i \in DOMAIN out.sqls
    /\ out.sqls[i].op = "DROP DEFAULT" /\ Unquote(out.sqls[i].column) = n

\* C16: ADD COLUMN default. For every added field the ADD COLUMN statement
\* carries a DEFAULT literal exactly when the field has a default other than
\* NoDefault; for MySQL and PostgreSQL that statement is immediately followed
\* by ALTER COLUMN ... DROP DEFAULT for the same column, for SQLite no DROP
\* DEFAULT is emitted; and no other DROP DEFAULT is in the script.
C16_AddColumnDefault ==
    CompiledUpdate =>
        /\ \A k \in DOMAIN out.of.add_fields :
              LET f == out.of.add_fields[k]
              IN  /\ Cardinality(AddColumnsOf(f.name)) = 1
                  /\ \A i \in AddColumnsOf(f.name) :
                        /\ out.sqls[i].table = quote(type, out.of.schema.name)
                        /\ IF f.default = NoDefault
                           THEN /\ out.sqls[i].default = NoDefault
                                /\ ~DropsDefaultOf(i + 1, f.name)
                           ELSE /\ out.sqls[i].default
                                       = V(Field_to_database(f, f.default))
                                /\ DropsDefaultOf(i + 1, f.name) <=> type # SQLITE
        /\ type = SQLITE => \A i \in DOMAIN out.sqls : out.sqls[i].op # "DROP DEFAULT"
        /\ \A i \in DOMAIN out.sqls :
              out.sqls[i].op = "DROP DEFAULT" =>
                  /\ i - 1 \in AddColumnsOf(Unquote(out.sqls[i].column))
                  /\ out.sqls[i - 1].default # NoDefault

\* C16 witness: a script that adds a field with a default, for MySQL or
\* PostgreSQL, and drops the default right after
C16_Witness ==
    /\ CompiledUpdate /\ type # SQLITE
    /\ \E k \in DOMAIN out.of.add_fields :
          /\ out.of.add_fields[k].default # NoDefault
          /\ \E i \in AddColumnsOf(out.of.add_fields[k].name) :
                DropsDefaultOf(i + 1, out.of.add_fields[k].name)

\* C16 witness: a script that adds a field without a default
C16_WitnessNoDefault ==
    /\ CompiledUpdate
    /\ \E k \in DOMAIN out.of.add_fields :
          /\ out.of.add_fields[k].default = NoDefault
          /\ AddColumnsOf(out.of.add_fields[k].name) # {}

\* C16 witness: a script for SQLite that adds a field with a default
C16_WitnessSQLite ==
    /\ CompiledUpdate /\ type = SQLITE
    /\ \E k \in DOMAIN out.of.add_fields :
          /\ out.of.add_fields[k].default # NoDefault
          /\ AddColumnsOf(out.of.add_fields[k].name) # {}

\* the script is S's CREATE TABLE text: the CREATE TABLE of S with one column
\* definition per field, and what Schema.to_sql puts after it
IsCreateTableOf(sqls, s) ==
    /\ sqls = Schema_to_sql(s, type)
    /\ sqls[1].op = "CREATE TABLE" /\ Unquote(sqls[1].table) = s.name
    /\ [k \in DOMAIN sqls[1].columns |-> Unquote(sqls[1].columns[k].column)]
           = NameList(s.fields)
    /\ \A k \in 2..Len(sqls) : sqls[k].op \in {"CREATE INDEX", "COMMENT ON COLUMN"}

\* C17: create/drop duality. S - None has schema S, no old schema and five
\* empty operation lists, and compiles to S's CREATE TABLE text; ~(S - None)
\* has no schema and old schema S and compiles to exactly one DROP TABLE
\* statement naming S; ~~(S - None) compiles again to S's CREATE TABLE text.
C17_CreateDropDuality ==
    B = Null =>
        /\ M # Null =>
              /\ M.schema = A /\ M.old_schema = Null /\ NoOperations(M)
        /\ pc = "compiled" =>
              /\ out.raised = NoException /\ IsCreateTableOf(out.sqls, A)
        /\ Minv # Null =>
              /\ Minv.schema = Null /\ Minv.old_schema = A /\ NoOperations(Minv)
        /\ pc = "compiled_inv" =>
              /\ out.raised = NoException
              /\ Len(out.sqls) = 1
              /\ out.sqls[1].op = "DROP TABLE"
              /\ out.sqls[1].table = quote(type, A.name)
        /\ pc = "compiled back" =>
              /\ M2 = M
              /\ out.raised = NoException /\ IsCreateTableOf(out.sqls, A)

\* C17 witness: the create migration of a schema with two indexes and a
\* commented field was compiled, inverted twice and compiled again
C17_Witness ==
    /\ B = Null /\ pc = "compiled back"
    /\ Len(A.indexes) = 2 /\ Len(A.fields) = 3
    /\ \E k \in DOMAIN A.fields : A.fields[k].comment # ""

\* C17 witness: the drop migration was compiled
C17_WitnessDrop == B = Null /\ pc = "compiled_inv" /\ A.indexes # <<>>

(***************************************************************************)
(* Claims about the bulk update.                                           *)
(***************************************************************************)
\* the rows the CaseUpdate was given
SuppliedData == store.heap[1].data

\* the rows of the data that name the primary key pk
SuppliedFor(pk) ==
    {i \in DOMAIN SuppliedData : DictGet(SuppliedData[i], "id") = PyInt(pk)}

\* the rows of the data that name pk and supply column col
SupplyingFor(pk, col) ==
    {i \in SuppliedFor(pk) : DictGet(SuppliedData[i], col) # Null}

\* the statement was compiled and executed
CaseUpdateExecuted == pc = "executed"

\* every supplied cell holds the value supplied for it (by the last row that
\* supplies it), as the column's field stores it
SuppliedCellsSet ==
    \A pk \in TableKeys, col \in {"a", "b"} :
        SupplyingFor(pk, col) # {} =>
            LET i == CHOOSE i \in SupplyingFor(pk, col) :
                         \A j \in SupplyingFor(pk, col) : j <= i
            IN  rows[pk][col] = Field_to_database(FieldByName(ModelSchema.fields, col),
                                                  DictGet(SuppliedData[i], col))

\* no row whose primary value is not supplied is changed
OtherRowsKept ==
    \A pk \in TableKeys : SuppliedFor(pk) = {} => rows[pk] = InitialRows[pk]

\* no column of a supplied row that was not supplied for that row is changed
OtherColumnsKept ==
    \A pk \in TableKeys, col \in {"a", "b"} :
        SuppliedFor(pk) # {} /\ SupplyingFor(pk, col) = {} =>
            rows[pk][col] = InitialRows[pk][col]

\* C18: executing the statement CaseUpdate compiled sets every supplied cell
\* to the supplied value and changes no other cell: no row that was not
\* supplied and no column that was not supplied for its row
C18_CaseUpdate ==
    CaseUpdateExecuted => SuppliedCellsSet /\ OtherRowsKept /\ OtherColumnsKept

\* the rows supply different column sets, and a column that was not
\* supplied for a row is not NULL before the update and NULL after it
C18_UnsuppliedCellNulled ==
    /\ CaseUpdateExecuted
    /\ \E pk \in TableKeys, col \in {"a", "b"} :
          /\ SuppliedFor(pk) # {} /\ SupplyingFor(pk, col) = {}
          /\ InitialRows[pk][col] # PyNone
          /\ rows[pk][col] = PyNone

\* every row of the data supplies the same columns
SameColumnSets ==
    \A i, j \in DOMAIN SuppliedData :
        {it.k : it \in Range(SuppliedData[i])} = {it.k : it \in Range(SuppliedData[j])}

\* what holds of the executed statement: the supplied cells are set and the
\* rows that were not supplied are kept, and where every row supplies the
\* same columns no other cell changes
C18_ExceptUnsuppliedColumns ==
    CaseUpdateExecuted =>
        /\ SuppliedCellsSet /\ OtherRowsKept
        /\ SameColumnSets => OtherColumnsKept

\* two rows with different keys and the same columns have been applied
C18_WitnessSameColumns ==
    /\ CaseUpdateExecuted /\ SameColumnSets
    /\ Len(SuppliedData) = 2
    /\ SuppliedFor(1) # {} /\ SuppliedFor(2) # {}
    /\ rows[1] # InitialRows[1] /\ rows[2] # InitialRows[2]

(***************************************************************************)
(* Claims about arithmetic expressions.                                    *)
(***************************************************************************)
\* the values field a may hold in the row the expression is computed on
FieldValues == {1, 5}

\* x op y
Arith(op, x, y) ==
    IF op = "+" THEN x + y ELSE IF op = "-" THEN x - y ELSE x * y

\* the value of the expression object o after its first n operators, as
\* Python applies them: each to the whole expression before it, a
\* sub-expression operand as a whole
RECURSIVE PyValue(_, _, _, _)
PyValue(st, o, n, fv) ==
    IF n = 0 THEN fv
    ELSE LET value == st.heap[o].values[n].value
         IN  Arith(st.heap[o].values[n].op,
                   PyValue(st, o, n - 1, fv),
                   IF value.t = "obj"
                   THEN PyValue(st, value.o, Len(st.heap[value.o].values), fv)
                   ELSE value.v.v)

\* the value of the text sql[lo..hi] under SQL's operator precedence: * binds
\* tighter than + and -, operators of one level group from the left, and
\* parentheses group first; a quoted column is fv, a placeholder its value
RECURSIVE SqlSum(_, _, _, _, _)
RECURSIVE SqlProduct(_, _, _, _, _)
RECURSIVE SqlAtom(_, _, _, _, _)
TopLevel(sql, lo, hi, ops) ==
    {i \in lo..hi : sql[i] \in ops /\ ParenDepth(sql, i) = ParenDepth(sql, lo)}

Last(S) == CHOOSE i \in S : \A j \in S : j <= i

SqlSum(sql, lo, hi, values, fv) ==
    IF TopLevel(sql, lo, hi, {Kw("+"), Kw("-")}) = {}
    THEN SqlProduct(sql, lo, hi, values, fv)
    ELSE Arith(sql[Last(TopLevel(sql, lo, hi, {Kw("+"), Kw("-")}))].s,
               SqlSum(sql, lo, Last(TopLevel(sql, lo, hi, {Kw("+"), Kw("-")})) - 1,
                      values, fv),
               SqlProduct(sql, Last(TopLevel(sql, lo, hi, {Kw("+"), Kw("-")})) + 1, hi,
                          values, fv))

SqlProduct(sql, lo, hi, values, fv) ==
    IF TopLevel(sql, lo, hi, {Kw("*")}) = {}
    THEN SqlAtom(sql, lo, hi, values, fv)
    ELSE Arith("*",
               SqlProduct(sql, lo, Last(TopLevel(sql, lo, hi, {Kw("*")})) - 1, values, fv),
               SqlAtom(sql, Last(TopLevel(sql, lo, hi, {Kw("*")})) + 1, hi, values, fv))

SqlAtom(sql, lo, hi, values, fv) ==
    IF sql[lo] = Kw("(") THEN SqlSum(sql, lo + 1, hi - 1, values, fv)
    ELSE IF sql[lo].k = "id" THEN fv
    ELSE values[sql[lo].name].v

\* an expression has been compiled and nothing was raised
ExpressionCompiled ==
    result # Null /\ result.op = "expression" /\ result.raised = NoException

\* the compiled text and the expression denote the same value whatever
\* the column holds
SameValue ==
    \A fv \in FieldValues :
        SqlSum(result.sql, 1, Len(result.sql), BoundValues(store, E.root), fv)
        = PyValue(store, E.root, Len(store.heap[E.root].values), fv)

\* C19: the text compiled from an expression chained from arithmetic
\* operators, read under SQL's operator precedence, denotes the value of
\* applying the operators in the order and grouping they were written in
C19_ArithmeticGrouping == ExpressionCompiled => SameValue

\* the operators of root, in order
RootValues == store.heap[E.root].values

\* (a + n) * m was compiled to text that denotes a + n * m
C19_GroupingLost ==
    /\ ExpressionCompiled
    /\ Len(RootValues) = 2
    /\ RootValues[1].op = "+" /\ RootValues[1].value.t = "lit"
    /\ RootValues[2].op = "*" /\ RootValues[2].value.t = "lit"
    /\ result.sql = <<Id(quote(result.type, "a")), Kw("+"), Ph(VarName(0)),
                      Kw("*"), Ph(VarName(1))>>
    /\ ~SameValue

\* a literal is multiplied onto an expression that has a sum or a difference
\* before it
ProductOfSum ==
    \E i, j \in DOMAIN RootValues :
        /\ j < i
        /\ RootValues[i].op = "*" /\ RootValues[i].value.t = "lit"
        /\ RootValues[j].op \in {"+", "-"}

\* what holds of the compiled text: it denotes the expression's value unless
\* a literal is multiplied onto a sum or a difference
C19_ExceptProductOfSum == ExpressionCompiled /\ ~ProductOfSum => SameValue

\* (a + n) * (sub) and a * n - m were compiled and denote their values
C19_WitnessKept ==
    /\ ExpressionCompiled /\ ~ProductOfSum /\ SameValue
    /\ Len(RootValues) = 3
    /\ RootValues[1].op = "+" /\ RootValues[2].op = "*"
    /\ RootValues[2].value.t = "obj" /\ RootValues[3].op = "-"

(***************************************************************************)
(* Claims about where().                                                   *)
(***************************************************************************)
\* a text without the names of its placeholders
Unnamed(sql) == [i \in DOMAIN sql |-> IF sql[i].k = "ph" THEN Ph("?") ELSE sql[i]]

\* the text of condition c compiled alone, as the program built it
Alone(c, t) == Unnamed(SQLMarker_to_sql(QueryStore, c, t, {}).sql)

\* "(" text ")"
Parens(sql) == <<Kw("(")>> \o sql \o <<Kw(")")>>

\* the conditions the program may pass that no other condition refers to
PlainConditions ==
    {O.a_eq_1, O.b_eq_true, O.a_plus_b_gt_1, O.a_in_1_1, O.a_like_x, O.id_in_sub,
     O.a_like_b}

\* where() has not extended condition c
Untouched(c) == store.heap[c].values = QueryStore.heap[c].values

\* where() has extended condition c by exactly the operands more
Extended(c, more) == store.heap[c].values = QueryStore.heap[c].values \o more

\* the builder's statement has been compiled, and only where() with
\* conditions was called on the builder
OnlyWhereCompiled ==
    /\ CrudCompiled
    /\ result.self = O.builder
    /\ LET b == store.heap[O.builder]
       IN  /\ b.where # Null /\ b.raw_where = ""
           /\ b.limit = 0 /\ b.offset = 0 /\ b.order_by = <<>>
           /\ ~b.for_update /\ ~b.for_share

\* the text of the statement's WHERE clause, up to the final ";"
WhereText ==
    LET w == CHOOSE i \in DOMAIN result.sql :
                 result.sql[i] = Kw("WHERE") /\ ParenDepth(result.sql, i) = 0
    IN  Unnamed(SubSeq(result.sql, w + 1, Len(result.sql) - 1))

\* where(c1, c2, is_and=False).where(c3) was called
OrThenAnd(c1, c2, c3) ==
    /\ store.heap[O.builder].where = Obj(c1)
    /\ Extended(c1, <<[op |-> "OR", value |-> Obj(c2)], [op |-> "AND", value |-> Obj(c3)]>>)
    /\ Untouched(c2) /\ Untouched(c3)

\* where(c1).where(c2, c3, is_and=False) was called
AndThenOr(c1, c2, c3) ==
    /\ store.heap[O.builder].where = Obj(c1)
    /\ Extended(c1, <<[op |-> "AND", value |-> Obj(c2)]>>)
    /\ Extended(c2, <<[op |-> "OR", value |-> Obj(c3)]>>)
    /\ Untouched(c3)

\* where(c1, c2) or where(c1).where(c2) was called
AndOnce(c1, c2) ==
    /\ store.heap[O.builder].where = Obj(c1)
    /\ Extended(c1, <<[op |-> "AND", value |-> Obj(c2)]>>)
    /\ Untouched(c2)

\* C20: the conditions of one where() call are joined with AND, or with OR
\* when is_and is false, successive calls are joined with AND, and every
\* AND and OR has both sides in parentheses: where(c1, c2, is_and=False)
\* .where(c3) is ((c1) OR (c2)) AND (c3), and where(c1).where(c2, c3,
\* is_and=False) is (c1) AND ((c2) OR (c3))
C20_WhereComposition ==
    OnlyWhereCompiled =>
        /\ \A c1, c2, c3 \in PlainConditions :
              /\ OrThenAnd(c1, c2, c3) =>
                    WhereText = Parens(Parens(Alone(c1, result.type)) \o <<Kw("OR")>>
                                       \o Parens(Alone(c2, result.type)))
                                \o <<Kw("AND")>> \o Parens(Alone(c3, result.type))
              /\ AndThenOr(c1, c2, c3) =>
                    WhereText = Parens(Alone(c1, result.type)) \o <<Kw("AND")>>
                                \o Parens(Parens(Alone(c2, result.type)) \o <<Kw("OR")>>
                                          \o Parens(Alone(c3, result.type)))
              /\ AndOnce(c1, c2) =>
                    WhereText = Parens(Alone(c1, result.type)) \o <<Kw("AND")>>
                                \o Parens(Alone(c2, result.type))
        /\ \A i \in DOMAIN WhereText :
              WhereText[i] \in {Kw("AND"), Kw("OR")} =>
                  WhereText[i - 1] = Kw(")") /\ WhereText[i + 1] = Kw("(")

\* where(c1, c2, is_and=False).where(c3) has been compiled
C20_Witness ==
    /\ OnlyWhereCompiled
    /\ \E c1, c2, c3 \in PlainConditions :
          /\ c1 # c2 /\ c1 # c3 /\ c2 # c3
          /\ OrThenAnd(c1, c2, c3)

\* where(c1).where(c2, c3, is_and=False) has been compiled
C20_WitnessAndThenOr ==
    /\ OnlyWhereCompiled
    /\ \E c1, c2, c3 \in PlainConditions :
          /\ c1 # c2 /\ c1 # c3 /\ c2 # c3
          /\ AndThenOr(c1, c2, c3)

(***************************************************************************)
(* Claims about sync_index_name.                                           *)
(***************************************************************************)
\* A.sync_index_name(B) has returned
Synced == pc = "synced" /\ out = NoException

\* every index of A has the name of the index of B with its unique flag and
\* its field names in its order
NamesOfSameIndex ==
    \A i \in DOMAIN A.indexes :
        \E j \in DOMAIN B.indexes :
            /\ B.indexes[j].unique = A.indexes[i].unique
            /\ B.indexes[j].fields = A.indexes[i].fields
            /\ B.indexes[j].name = A.indexes[i].name

\* no index of A has another name than the one generated for it
NamesKept ==
    \A i \in DOMAIN A.indexes :
        A.indexes[i].name = GeneratedIndexName(A.indexes[i].fields, A.indexes[i].unique, "r1")

\* C30: when A == B, after A.sync_index_name(B) every index of A has the
\* name of B's index with the same unique flag and the same field names in
\* the same order; when A != B the call raises ValueError and changes no name
C30_SyncIndexName ==
    pc = "synced" =>
        /\ Schema_eq(A, B) <=> out = NoException
        /\ out = NoException => NamesOfSameIndex
        /\ out # NoException => out = "ValueError" /\ NamesKept

\* two indexes over the same fields in different orders: one has taken the
\* name of the other's counterpart
C30_NameOfOtherOrder ==
    /\ Synced
    /\ B # A
    /\ \E i \in DOMAIN A.indexes, j \in DOMAIN B.indexes :
          /\ A.indexes[i].fields = <<"a", "b">>
          /\ B.indexes[j].fields = <<"b", "a">>
          /\ A.indexes[i].name = B.indexes[j].name

\* no two indexes of A have the same unique flag and the same set of fields
NoReorderedIndexes ==
    \A i, j \in DOMAIN A.indexes :
        Serialize(A.indexes[i]) = Serialize(A.indexes[j]) => i = j

\* what holds: the claim for schemas without two indexes over the same
\* fields, and the ValueError in every case
C30_ExceptReordered ==
    pc = "synced" =>
        /\ Schema_eq(A, B) <=> out = NoException
        /\ out = NoException /\ NoReorderedIndexes => NamesOfSameIndex
        /\ out # NoException => out = "ValueError" /\ NamesKept

\* two indexes took the names of their counterparts
C30_WitnessSynced ==
    /\ Synced /\ NoReorderedIndexes /\ B # A
    /\ Len(A.indexes) = 2
    /\ \A i \in DOMAIN A.indexes : A.indexes[i].name.rnd = "r2"

(***************************************************************************)
(* Claims about two builders compiled side by side.                        *)
(***************************************************************************)
\* the store with every counter at 0, every value map empty and every
\* marker on the counter and the map it was constructed with
Fresh(st) ==
    [heap |-> [o \in DOMAIN st.heap |-> [st.heap[o] EXCEPT !.var_index = o, !.vars = o]],
     ids |-> [o \in DOMAIN st.ids |-> 0],
     dicts |-> [o \in DOMAIN st.dicts |-> <<>>]]

\* builder p compiled alone
Alone21(p) == Crud_to_select_sql(Fresh(store), p, FALSE, MYSQL, <<>>, <<>>, {p})

\* the literals of thread p's condition, as its field stores them
OwnLiterals(p) ==
    [i \in DOMAIN store.heap[ConditionOf(p)].values |->
        Field_to_database(FieldA, ValueOf(store.heap[ConditionOf(p)].values[i].value))]

\* thread p has marked every literal of its builder
Done(p) == procs[p].pc = "done"

\* C21: two builders that share no expression, compiled with their marking
\* steps interleaved in any order, each end with the placeholders var0 ..
\* var(n-1) for their own n literals and a value map of their own literals
\* only, as when each is compiled alone
C21_BuilderIsolation ==
    \A p \in Threads :
        Done(p) =>
            /\ procs[p].names = [i \in DOMAIN OwnLiterals(p) |-> VarName(i - 1)]
            /\ procs[p].names = Placeholders(Alone21(p).sql)
            /\ store.dicts[store.heap[p].vars]
                   = [k \in Range(procs[p].names) |->
                         OwnLiterals(p)[CHOOSE i \in DOMAIN OwnLiterals(p) :
                                            VarName(i - 1) = k]]
            /\ store.dicts[store.heap[p].vars] = Alone21(p).st.dicts[p]

\* both threads are done, each marked two literals, and the steps of the
\* second began before the first was done
C21_Witness ==
    /\ \A p \in Threads : Done(p) /\ Len(procs[p].names) = 2
    /\ store.ids[1] = 2 /\ store.ids[2] = 2

\* thread 1 is between reading its counter and writing it while thread 2 is
\* between its two marks
C21_WitnessInterleaved ==
    /\ procs[1].pc = "add" /\ procs[1].i = 2
    /\ procs[2].pc = "store" /\ procs[2].i = 1

(***************************************************************************)
(* Claims about compiling twice.                                           *)
(***************************************************************************)
\* to_select_sql has returned twice
CompiledTwice == procs # NoProcs /\ result.raised = NoException

\* C27: to_select_sql called twice on one builder with the same arguments
\* returns the same text both times, and leaves the same value map
C27_Repeatable ==
    CompiledTwice =>
        /\ result.sql = procs.first
        /\ BoundValues(store, O.builder) = procs.vars

\* the second text names its placeholder var1 where the first named it var0,
\* and the value map has grown
C27_PlaceholdersRenamed ==
    /\ CompiledTwice
    /\ Placeholders(procs.first) = <<VarName(0)>>
    /\ Placeholders(result.sql) = <<VarName(1)>>
    /\ DOMAIN procs.vars = {VarName(0)}
    /\ DOMAIN BoundValues(store, O.builder) = {VarName(0), VarName(1)}

\* the second text selects the column of the fields argument twice
C27_ColumnTwice ==
    /\ CompiledTwice
    /\ result.data = <<FieldA>>
    /\ SubSeq(procs.first, 1, 3) = <<Kw("SELECT"), Id(quote(result.type, "a")), Kw("FROM")>>
    /\ SubSeq(result.sql, 1, 5)
           = <<Kw("SELECT"), Id(quote(result.type, "a")), Kw(","),
               Id(quote(result.type, "a")), Kw("FROM")>>

\* what holds: a statement without placeholders, compiled without a fields
\* argument, is the same both times
C27_ExceptMarksAndFields ==
    CompiledTwice /\ Placeholders(procs.first) = <<>> /\ result.data = <<>> =>
        /\ result.sql = procs.first
        /\ BoundValues(store, O.builder) = procs.vars

\* such a statement, with a raw restriction and a limit, was compiled twice
C27_WitnessSame ==
    /\ CompiledTwice /\ Placeholders(procs.first) = <<>> /\ result.data = <<>>
    /\ store.heap[O.builder].raw_where # ""
    /\ store.heap[O.builder].limit = 1

(***************************************************************************)
(* Claims about a compilation that raises.                                 *)
(***************************************************************************)
\* Insert.to_sql or Crud.to_select_sql has raised OperationException
CompileError ==
    /\ result # Null
    /\ result.op \in {"insert", "select", "count"}
    /\ result.raised = "OperationException"

\* the builder's counter and value map are as they were before the call:
\* the builder was not compiled before, so the counter is 0 and the map empty
CounterAndMapKept ==
    /\ store.ids[store.heap[result.self].var_index] = 0
    /\ BoundValues(store, result.self) = <<>>

\* C29: when Insert.to_sql or Crud.to_select_sql raises OperationException
\* the builder's placeholder counter and value map are the same as before
\* the call
C29_UnchangedOnError == CompileError => CounterAndMapKept

\* an upsert that raised has left the marks of its rows in the builder
C29_InsertMarksLeft ==
    /\ CompileError /\ result.op = "insert"
    /\ store.ids[store.heap[result.self].var_index] > 0
    /\ BoundValues(store, result.self) # <<>>

\* FOR UPDATE on SQLite has raised after the condition was marked
C29_SelectMarksLeft ==
    /\ CompileError /\ result.op = "select" /\ result.type = SQLITE
    /\ store.heap[result.self].for_update
    /\ store.ids[store.heap[result.self].var_index] > 0

\* what holds: index hints on PostgreSQL raise before anything is marked
C29_ExceptMarkedBefore ==
    CompileError /\ result.type = POSTGRES /\ result.op \in {"select", "count"} =>
        CounterAndMapKept

\* index hints on PostgreSQL have raised on a builder with a condition
C29_WitnessHints ==
    /\ CompileError /\ result.type = POSTGRES /\ result.op = "select"
    /\ store.heap[result.self].where # Null

(***************************************************************************)
(* Claims about the termination of rendering.                              *)
(***************************************************************************)
\* the marker objects among operands
ObjectsIn(operands) == {x.o : x \in {y \in operands : y.t = "obj"}}

\* the marker objects the to_sql of object o compiles
Compiles(st, o) ==
    LET m == st.heap[o]
    IN  IF m.cls = "SQLExpression"
        THEN ObjectsIn({m.values[i].value : i \in DOMAIN m.values})
        ELSE IF m.cls = "SQLCase"
        THEN ObjectsIn({m.default} \cup {m.cases[i].ex : i \in DOMAIN m.cases}
                       \cup {m.cases[i].v : i \in DOMAIN m.cases})
        ELSE IF m.cls = "Crud"
        THEN ObjectsIn({m.where} \ {Null}) \cup ObjectsIn(Range(m.order_by))
        ELSE {}

\* the objects compiled on the way from the objects S, in at most n steps
RECURSIVE CompiledFrom(_, _, _)
CompiledFrom(st, S, n) ==
    IF n = 0 THEN S
    ELSE CompiledFrom(st, S \cup UNION {Compiles(st, o) : o \in S}, n - 1)

\* some expression is, directly or through others, an operand of itself
Cyclic(st) ==
    \E o \in DOMAIN st.heap : o \in CompiledFrom(st, Compiles(st, o), Len(st.heap))

\* C28: to_sql returns for every expression built through the operator
\* methods and where(), also when one expression object is on both sides of
\* & or | or is passed twice to one where() call: the recursion ends
C28_RenderingTerminates ==
    result # Null => result.raised # "RecursionError"

\* where(c, c) was called and compiling recursed until Python gave up
C28_SelfOperandRecurses ==
    /\ result # Null /\ result.raised = "RecursionError"
    /\ store.heap[O.builder].where = Obj(O.a_eq_1)
    /\ [op |-> "AND", value |-> Obj(O.a_eq_1)] \in Range(store.heap[O.a_eq_1].values)

\* what holds: rendering ends unless an expression has become an operand of
\* itself
C28_ExceptCyclic ==
    result # Null /\ ~Cyclic(store) => result.raised # "RecursionError"

\* a statement with two where() calls, three conditions and no expression
\* inside itself was compiled
C28_WitnessAcyclic ==
    /\ result # Null /\ ~Cyclic(store) /\ result.raised = NoException
    /\ store.heap[O.builder].where = Obj(O.a_eq_1)
    /\ Len(store.heap[O.a_eq_1].values) = 3

(***************************************************************************)
(* Claims about Model.update.                                              *)
(***************************************************************************)
\* the fields update() writes
Written ==
    SelectSeq(procs.schema.fields,
              LAMBDA f : procs.fields = <<>> \/ f.name \in Names(procs.fields))

\* update() was called on an instance with a primary value
UpdateCalled ==
    /\ result # Null /\ result.op = "update"
    /\ Model_primary(procs.schema, procs.self) # PyInt(0)

\* the statement assigns the column named name from a placeholder bound to
\* value
Assigns(name, value) ==
    \E i \in DOMAIN result.sql :
        /\ result.sql[i] = Id(quote(result.type, name))
        /\ result.sql[i + 1] = Kw("=")
        /\ result.sql[i + 2].k = "ph"
        /\ BoundValues(store, 1)[result.sql[i + 2].name] = value

\* update() compiled an UPDATE that sets the column of every written field
\* to the instance's value
UpdatesColumns ==
    /\ result.raised = NoException
    /\ \A i \in DOMAIN Written :
          Assigns(Written[i].name,
                  Field_to_database(Written[i], procs.self[Written[i].model_name]))

\* C26: update() of an instance with a field whose storage name differs from
\* its model name compiles an UPDATE that sets the column named Field.name
\* to the instance's value for the field, and does not raise
C26_StorageName ==
    UpdateCalled /\ (\E i \in DOMAIN Written : Written[i].name # Written[i].model_name)
        => UpdatesColumns

\* the field a is stored as a_col, and update() raised KeyError
C26_KeyError ==
    /\ UpdateCalled
    /\ \E i \in DOMAIN Written : Written[i].name = "a_col" /\ Written[i].model_name = "a"
    /\ result.raised = "KeyError"

\* what holds: the claim for the fields stored under their model name
C26_ExceptRenamed ==
    UpdateCalled /\ (\A i \in DOMAIN Written : Written[i].name = Written[i].model_name)
        => UpdatesColumns

\* update(fields=[a]) on a model whose other field is stored under another
\* name was compiled
C26_WitnessSameName ==
    /\ UpdateCalled /\ UpdatesColumns
    /\ Len(Written) = 1 /\ Written[1].name = "a"
    /\ \E i \in DOMAIN procs.schema.fields : procs.schema.fields[i].name = "b_col"

(***************************************************************************)
(* Claims about save().                                                    *)
(***************************************************************************)
\* the positions of event e in the log
Logged(e) == {i \in DOMAIN procs.log : procs.log[i] = e}

Statements == Logged("INSERT") \cup Logged("UPDATE")

AfterHooks == Logged("after_create") \cup Logged("after_update") \cup Logged("after_save")

\* C23: in save() with validate = true, validate() runs exactly once and
\* before any INSERT or UPDATE is executed; when it raises
\* ValidateException no statement is executed and no after_ hook runs
C23_ValidateFirst ==
    procs.validate =>
        /\ Cardinality(Logged("validate")) <= 1
        /\ procs.pc # "before_save" => Logged("validate") = {1}
        /\ procs.raised = "ValidateException" => Statements = {} /\ AfterHooks = {}

\* save() returned after validate(), an INSERT and the two after_ hooks
C23_Witness ==
    /\ procs.validate /\ procs.pc = "returned"
    /\ procs.log = <<"validate", "INSERT", "after_create", "after_save">>

\* save() raised ValidateException
C23_WitnessRaised ==
    /\ procs.validate /\ procs.pc = "raised"
    /\ procs.raised = "ValidateException"
    /\ procs.log = <<"validate">>

(***************************************************************************)
(* Claims about Model.bulk_create.                                         *)
(***************************************************************************)
BulkReturned == procs.pc = "returned"

AllLack == \A i \in DOMAIN procs.given : LacksPrimary(procs.given[i])

\* C24: bulk_create on k instances that all lack a primary value leaves the
\* i-th instance (0-based, in the order passed) with id first + i, first
\* being the id the database gave to the first row of the INSERT.
C24_BulkCreateIds ==
    (BulkReturned /\ AllLack) =>
        \A i \in DOMAIN procs.instances :
            Model_primary(ModelSchema, procs.instances[i]) = PyInt(procs.first + (i - 1))

\* and that id is the id of the row stored for the instance
C24_IdsOfRows ==
    (BulkReturned /\ AllLack) =>
        \A i \in DOMAIN procs.instances :
            Model_primary(ModelSchema, procs.instances[i]).v = rows[i]

C24_Witness ==
    /\ BulkReturned /\ AllLack /\ type = POSTGRES
    /\ Len(procs.instances) = MaxInstances /\ procs.first = 6
    /\ Model_primary(ModelSchema, procs.instances[MaxInstances]) = PyInt(5 + MaxInstances)

C24_WitnessMySQL ==
    /\ BulkReturned /\ AllLack /\ type = MYSQL
    /\ Len(procs.instances) = MaxInstances
    /\ Model_primary(ModelSchema, procs.instances[1]) = PyInt(procs.first)

(***************************************************************************)
(* Claims about BaseData construction.  The declared fields and defaults   *)
(* are read off the class statement: the fields of the bases first, then   *)
(* the annotated names; the default of a field is the attribute of its     *)
(* name in the body, else the one of the base's field.                     *)
(***************************************************************************)
Constructed == procs.pc = "constructed"

DeclaredNames ==
    LET base == BaseFields(procs.cls.bases)
    IN  [i \in DOMAIN base |-> base[i].name] \o procs.cls.annotations

DeclaredDefault(n) ==
    IF n \in DOMAIN procs.cls.namespace THEN procs.cls.namespace[n]
    ELSE LET base == BaseFields(procs.cls.bases)
         IN  IF n \in Names(base)
             THEN base[CHOOSE i \in DOMAIN base : base[i].name = n].default
             ELSE NoDefault

Positional == {DeclaredNames[i] : i \in DOMAIN DeclaredNames \cap DOMAIN procs.args}

\* the four cases of TypeError
MustRaise ==
    \/ Len(procs.args) + Cardinality(DOMAIN procs.kwargs) > Len(DeclaredNames)
    \/ \E n \in DOMAIN procs.kwargs : n \in Positional
    \/ \E n \in DOMAIN procs.kwargs : \A i \in DOMAIN DeclaredNames : DeclaredNames[i] # n
    \/ \E i \in DOMAIN DeclaredNames :
          /\ DeclaredNames[i] \notin Positional \cup DOMAIN procs.kwargs
          /\ DeclaredDefault(DeclaredNames[i]) = NoDefault

\* every declared field is bound, to its positional argument, else to its
\* keyword argument, else to its default
BoundOnce ==
    /\ procs.raised = NoException
    /\ DOMAIN procs.data = {DeclaredNames[i] : i \in DOMAIN DeclaredNames}
    /\ \A i \in DOMAIN DeclaredNames :
          procs.data[DeclaredNames[i]] =
              IF i <= Len(procs.args) THEN procs.args[i]
              ELSE IF DeclaredNames[i] \in DOMAIN procs.kwargs
              THEN procs.kwargs[DeclaredNames[i]]
              ELSE DeclaredDefault(DeclaredNames[i])

\* C25: construction raises TypeError for too many arguments, a keyword
\* naming a field filled positionally, a keyword naming no field, or a
\* field without default left unfilled, and otherwise binds every declared
\* field once: positionally in declaration order, by keyword, or to its
\* default.
C25_Construction ==
    Constructed => IF MustRaise THEN procs.raised = "TypeError" ELSE BoundOnce

\* a field declared without default is left unfilled and takes the value of
\* the class's attribute n
C25_DefaultOfN ==
    /\ Constructed /\ procs.raised = NoException
    /\ procs.cls.annotations = <<"n", "a">>
    /\ DOMAIN procs.cls.namespace = {"n"}
    /\ procs.args = <<>> /\ DOMAIN procs.kwargs = {}
    /\ procs.data["a"] = PyInt(7)

\* the claim holds for the classes whose body has no attribute n
C25_ExceptAttributeN ==
    (Constructed /\ "n" \notin DOMAIN procs.cls.namespace) =>
        IF MustRaise THEN procs.raised = "TypeError" ELSE BoundOnce

C25_WitnessBound ==
    /\ Constructed /\ BoundOnce /\ "n" \notin DOMAIN procs.cls.namespace
    /\ procs.cls.bases # <<>> /\ Len(DeclaredNames) = 3
    /\ Len(procs.args) = 1 /\ DOMAIN procs.kwargs = {"n"}
    /\ DeclaredDefault("a") = PyInt(7)

C25_WitnessRaised ==
    /\ Constructed /\ procs.raised = "TypeError"
    /\ "n" \notin DOMAIN procs.cls.namespace
    /\ Len(procs.args) = 1 /\ DOMAIN procs.kwargs = {"b"}
    /\ procs.cls.bases # <<>>

(***************************************************************************)
(* Claims about Model.get_or_create.                                       *)
(***************************************************************************)
\* the calls with the key value k
CallsWith(k) == {p \in Callers : procs[p].self.user_id = k}

Ended(p) == procs[p].pc \in {"returned", "raised"}

RowsWith(k) == {i \in DOMAIN rows.table : rows.table[i].user_id = k}

\* two or more calls with the key value k, which the table had no row for,
\* have all ended
RacedFor(k) ==
    /\ Cardinality(CallsWith(k)) >= 2
    /\ FetchOne(rows.before, k) = PyNone
    /\ \A p \in CallsWith(k) : Ended(p)

\* C22: of two or more interleaved get_or_create calls with equal key values
\* on a table without such a row, exactly one returns created = true, all
\* return an instance with the same primary key, one row with the key
\* exists at the end, and no call raises.
C22_GetOrCreate ==
    \A k \in {1, 2} :
        RacedFor(k) =>
            /\ \A p \in CallsWith(k) : procs[p].pc = "returned"
            /\ Cardinality({p \in CallsWith(k) : procs[p].created}) = 1
            /\ \A p, q \in CallsWith(k) : procs[p].ins.id = procs[q].ins.id
            /\ Cardinality(RowsWith(k)) = 1
            /\ \A p \in CallsWith(k) : procs[p].ins.id = rows.table[CHOOSE i \in RowsWith(k) : TRUE].id

\* all calls race for one key, and one of them lost the race at its INSERT
C22_Witness ==
    /\ RacedFor(2) /\ CallsWith(2) = Callers
    /\ rows.auto > Len(rows.table) + 1
    /\ \E p \in Callers : procs[p].created /\ procs[p].ins.level = 10 * p

\* a call that found the row at its first SELECT
C22_WitnessFound ==
    /\ RacedFor(2)
    /\ rows.auto = Len(rows.table) + 1

====
